---- MODULE Spec2Model ----
(***************************************************************************)
(* Model of the PDF specification-extraction service.                      *)
(*                                                                         *)
(*   SpecSSE    : SpecificationExtractor.stream_and_parse_sse_response     *)
(*                (qms/pdf_markdown_extractor.py), one call, line by line. *)
(*   SpecPC     : SpecificationExtractor.process_content, one call.        *)
(*   Spec       : process_specification (app_main.py), one request.        *)
(*   SpecLive   : Spec with the fairness of the handling thread.           *)
(*   SpecServer : process_specification, requests one after another.       *)
(*   SpecParse  : PDFMarkdownExtractor._parse_with_pipeline, two calls     *)
(*                at once.                                                 *)
(*   SpecPost   : the post-processing calls of app_main.py.                *)
(*   SpecOpt    : optimize_markdown_content, applied once and again.       *)
(*   SpecScore  : process_excel_file (com.py).                             *)
(*   SpecConv   : excel_to_json (conv_json.py), one workbook.              *)
(*                                                                         *)
(* Text is a sequence of one-character strings.  The dictionary keys of    *)
(* the source are written in ASCII:                                        *)
(*   code = 项目代码, item = 检验项目, type = 类型,                           *)
(*   upper = 上限, lower = 下限, unit = 单位.                                 *)
(***************************************************************************)
EXTENDS Integers, Sequences, FiniteSets, TLC

VARIABLES
    \* ---- stream_and_parse_sse_response ----
    sse_pc,        \* "start" | "reading" | "returned"
    stream,        \* the lines the endpoint would send on a 200 response
    pos,           \* number of lines iter_lines has yielded so far
    status_code,   \* response.status_code, 0 before the request / when post raised
    full_content,  \* the accumulator
    sse_ret,       \* the value returned by the call
    n_post,        \* number of requests.post calls issued
    raised,        \* "none", or the exception caught by the outer except
    \* ---- process_content ----
    pc_pc,             \* "start" | "done"
    response_content,  \* the text handed to process_content
    cleaned_idx,       \* positions of response_content kept in cleaned_content
    cleaned_content,   \* the text after both re.sub calls
    match_span,        \* <<first, last>> position of the re.search match, <<0, 0>> if none
    clean_text,        \* outermost_content without newlines
    data_list,         \* the value returned: the parsed literal, or None
    \* ---- process_specification (POST /api/file/extract-fields) ----
    pc,             \* where the handler is
    request,        \* the request: has_file, and the dataList form field
    check_pro,      \* the specification list without the project codes
    map_pro,        \* the name-to-code mapping
    fix_program,    \* whether an item name contains the haze characters
    md_content,     \* the markdown parse_pdf_to_markdown returned
    payload,        \* the body of the inference request
    exc,            \* the exception raised inside the handler's try
    http_response,  \* [status, body]
    trace,          \* the stages run so far, in order
    \* ---- post-processing: create_inspection_mapping, complete_project_codes,
    \*      convert_large_numbers_to_scientific ----
    post_pc,           \* "start" | "mapped" | "filled" | "done" | "raised"
    spec_data,         \* the specification list of the request
    result_data,       \* the value process_content returned
    mapping_dict,      \* create_inspection_mapping(spec_data)
    filled_check_pro,  \* complete_project_codes(result_data, mapping_dict)
    converted_list,    \* convert_large_numbers_to_scientific(filled_check_pro)
    post_exc,          \* the exception a post-processing call raised
    \* ---- optimize_markdown_content ----
    opt_pc,         \* "start" | "once" | "twice"
    opt_in,         \* the markdown text handed to the function
    compacted,        \* optimize_markdown_content(opt_in)
    compacted_again,  \* optimize_markdown_content(compacted)
    \* ---- consistency scoring (com.py): process_excel_file ----
    sc_pc,                     \* "start" | "loop" | "reported" | "returned"
    sheets,                    \* the sheets of the workbook, in order
    sheet_no,                  \* number of sheets the loop has gone through
    upper_comparison_series,   \* of the sheet scored last
    lower_comparison_series,   \* of the sheet scored last
    printed,                   \* per sheet: its results, or that it raised
    overall_total_cells,
    overall_same_count,
    overall_no_same_count,
    overall_consistency_rate,  \* a fraction [num, den]
    \* ---- the server process: requests handled one after another ----
    n_served,       \* number of requests answered so far
    remembered,     \* one earlier exchange: its inputs and its response
    \* ---- parse_pdf_to_markdown, two requests at a time ----
    par_pc,         \* per request: "start" | "analyzed" | "dir_made" | "returned" | "raised"
    images_list,    \* per request: the names of the images of its PDF, in order
    n_written,      \* per request: how many of them image_writer has written
    temp_dir,       \* per request: the local temp_dir, "" before line 73
    files,          \* the files on disk: [dir, name, by], by the request that wrote last
    \* ---- excel_to_json (conv_json.py), one workbook ----
    conv_pc,        \* "start" | "rows" | "saved" | "failed"
    excel_file,     \* the workbook: its sheets, in order
    conv_df,        \* df: the rows pd.read_excel returned, after dropna(how='all')
    row_no,         \* number of rows the loop has gone through
    json_data,      \* the records appended so far
    output_json     \* the list written to the .json file, None while there is none

sse_vars == <<sse_pc, stream, pos, status_code, full_content, sse_ret, n_post, raised>>
pc_vars == <<pc_pc, response_content, cleaned_idx, cleaned_content, match_span,
             clean_text, data_list>>
h_vars == <<pc, request, check_pro, map_pro, fix_program, md_content, payload, exc,
            http_response, trace>>
post_vars == <<post_pc, spec_data, result_data, mapping_dict, filled_check_pro,
               converted_list, post_exc>>
opt_vars == <<opt_pc, opt_in, compacted, compacted_again>>
sc_vars == <<sc_pc, sheets, sheet_no, upper_comparison_series, lower_comparison_series,
             printed, overall_total_cells, overall_same_count, overall_no_same_count,
             overall_consistency_rate>>
srv_vars == <<n_served, remembered>>
par_vars == <<par_pc, images_list, n_written, temp_dir, files>>
conv_vars == <<conv_pc, excel_file, conv_df, row_no, json_data, output_json>>
aux_vars == <<srv_vars, par_vars, conv_vars>>
fn_vars == <<post_vars, opt_vars, sc_vars, aux_vars>>
vars == <<sse_vars, pc_vars, h_vars, fn_vars>>

\* ------------------------------------------------------------------ bounds
MaxLines == 3
MaxTok == 5
MaxItems == 2

\* ------------------------------------------------------------ text helpers
IsPrefix(s, t) == Len(s) <= Len(t) /\ SubSeq(t, 1, Len(s)) = s

\* ----------------------------------------------------------- Python values
(* A Python value: t is its type, s the characters of a str (the digits of *)
(* a number), d the dict as a function from keys to values, l the items of *)
(* a list.                                                                 *)
PV(t, s, d, l) == [t |-> t, s |-> s, d |-> d, l |-> l]
None      == PV("none", <<>>, <<>>, <<>>)
Str(s)    == PV("str", s, <<>>, <<>>)
Num(s)    == PV("num", s, <<>>, <<>>)
Dict(d)   == PV("dict", <<>>, d, <<>>)
List(l)   == PV("list", <<>>, <<>>, l)

\* ------------------------------------------------------------ idle parts
\* The state of a part of the service that the specification at hand leaves out.
SSEIdle ==
    /\ sse_pc = "idle"
    /\ stream = <<>>
    /\ pos = 0
    /\ status_code = 0
    /\ full_content = <<>>
    /\ sse_ret = <<>>
    /\ n_post = 0
    /\ raised = "none"

PCIdle ==
    /\ pc_pc = "idle"
    /\ response_content = <<>>
    /\ cleaned_idx = <<>>
    /\ cleaned_content = <<>>
    /\ match_span = <<0, 0>>
    /\ clean_text = <<>>
    /\ data_list = None

BuildPromptIdle == [check_pro |-> <<>>, md_content |-> <<>>, languge_ |-> ""]
ErrorBody(msg, index, fields) == [msg |-> msg, index |-> index, fields |-> fields]
NoResponse == [status |-> 0, body |-> [error |-> ErrorBody("", 0, {})]]

HIdle ==
    /\ pc = "idle"
    /\ request = [has_file |-> FALSE, form |-> "absent", value |-> None]
    /\ check_pro = <<>>
    /\ map_pro = <<>>
    /\ fix_program = FALSE
    /\ md_content = <<>>
    /\ payload = [model |-> "", stream |-> FALSE, content |-> BuildPromptIdle]
    /\ exc = [type |-> "none", msg |-> ""]
    /\ http_response = NoResponse
    /\ trace = <<>>

PostIdle ==
    /\ post_pc = "idle"
    /\ spec_data = <<>>
    /\ result_data = None
    /\ mapping_dict = <<>>
    /\ filled_check_pro = None
    /\ converted_list = None
    /\ post_exc = [type |-> "none", msg |-> ""]

OptIdle ==
    /\ opt_pc = "idle"
    /\ opt_in = <<>>
    /\ compacted = <<>>
    /\ compacted_again = <<>>

ScoreIdle ==
    /\ sc_pc = "idle"
    /\ sheets = <<>>
    /\ sheet_no = 0
    /\ upper_comparison_series = <<>>
    /\ lower_comparison_series = <<>>
    /\ printed = <<>>
    /\ overall_total_cells = 0
    /\ overall_same_count = 0
    /\ overall_no_same_count = 0
    /\ overall_consistency_rate = [num |-> 0, den |-> 1]

\* What one request took in and what it was answered.
Exchange(req, parser, md, inference, text, response) ==
    [request |-> req, parser |-> parser, md_content |-> md, inference |-> inference,
     response_content |-> text, http_response |-> response]

NoExchange ==
    Exchange([has_file |-> FALSE, form |-> "absent", value |-> None], "none", <<>>,
             "none", <<>>, NoResponse)

ServerIdle ==
    /\ n_served = 0
    /\ remembered = NoExchange

ParseIdle ==
    /\ par_pc = <<>>
    /\ images_list = <<>>
    /\ n_written = <<>>
    /\ temp_dir = <<>>
    /\ files = {}

ConvIdle ==
    /\ conv_pc = "idle"
    /\ excel_file = <<>>
    /\ conv_df = <<>>
    /\ row_no = 0
    /\ json_data = <<>>
    /\ output_json = None

AuxIdle == ServerIdle /\ ParseIdle /\ ConvIdle

FnIdle == PostIdle /\ OptIdle /\ ScoreIdle /\ AuxIdle

\* -------------------------------------------------------- process_content
(* Characters: "T" stands for the five letters of the word think, so the   *)
(* opening tag is < T > and the closing tag is < / T >.                    *)
OPEN  == <<"<", "T", ">">>
CLOSE == <<"<", "/", "T", ">">>

StartsWithAt(s, i, pat) ==
    /\ i >= 1
    /\ i + Len(pat) - 1 <= Len(s)
    /\ \A k \in 1..Len(pat) : s[i + k - 1] = pat[k]

\* First position >= i at which pat occurs in s, 0 if there is none.
FindFrom(s, i, pat) ==
    IF \E j \in i..Len(s) : StartsWithAt(s, j, pat)
    THEN CHOOSE j \in i..Len(s) :
             StartsWithAt(s, j, pat) /\ \A k \in i..(j - 1) : ~StartsWithAt(s, k, pat)
    ELSE 0

TextAt(s, idx) == [k \in 1..Len(idx) |-> s[idx[k]]]

\* re.sub(r'<think>.*?</think>', '', s, flags=re.DOTALL): the positions of s
\* that are kept, scanning from position i.
RECURSIVE SubThinkPairs_KeepContent(_, _)
SubThinkPairs_KeepContent(s, i) ==
    IF i > Len(s)
    THEN <<>>
    ELSE IF StartsWithAt(s, i, OPEN) /\ FindFrom(s, i + Len(OPEN), CLOSE) # 0
    THEN LET c == FindFrom(s, i + Len(OPEN), CLOSE)
         IN  [k \in 1..(c - i - Len(OPEN)) |-> i + Len(OPEN) + k - 1]
                 \o SubThinkPairs_KeepContent(s, c + Len(CLOSE))
    ELSE <<i>> \o SubThinkPairs_KeepContent(s, i + 1)

RECURSIVE SubThinkPairs(_, _)
SubThinkPairs(s, i) ==
    IF i > Len(s)
    THEN <<>>
    ELSE IF StartsWithAt(s, i, OPEN) /\ FindFrom(s, i + Len(OPEN), CLOSE) # 0
    THEN SubThinkPairs(s, FindFrom(s, i + Len(OPEN), CLOSE) + Len(CLOSE))
    ELSE <<i>> \o SubThinkPairs(s, i + 1)

\* re.sub(r'</?think>', '', s): the positions of s that are kept.
RECURSIVE SubTags(_, _)
SubTags(s, i) ==
    IF i > Len(s)
    THEN <<>>
    ELSE IF StartsWithAt(s, i, CLOSE)
    THEN SubTags(s, i + Len(CLOSE))
    ELSE IF StartsWithAt(s, i, OPEN)
    THEN SubTags(s, i + Len(OPEN))
    ELSE <<i>> \o SubTags(s, i + 1)

\* Steps 1 and 2: the positions of the raw text that make up cleaned_content.
CleanedIdx(raw) ==
    LET k1 == SubThinkPairs(raw, 1)
        k2 == SubTags(TextAt(raw, k1), 1)
    IN  [k \in 1..Len(k2) |-> k1[k2[k]]]

\* The pattern \[(?:[^[\]]|(?R))*\] after its opening bracket: the position
\* of the closing bracket of a match whose body starts at j, 0 if none.
RECURSIVE MatchBody_FirstClose(_, _)
MatchBody_FirstClose(s, j) ==
    IF j > Len(s) THEN 0
    ELSE IF s[j] = "]" THEN j
    ELSE MatchBody_FirstClose(s, j + 1)

RECURSIVE MatchBody(_, _)
MatchBody(s, j) ==
    IF j > Len(s) THEN 0
    ELSE IF s[j] = "]" THEN j
    ELSE IF s[j] = "["
    THEN LET e == MatchBody(s, j + 1)              \* (?R)
         IN  IF e = 0 THEN 0 ELSE MatchBody(s, e + 1)
    ELSE MatchBody(s, j + 1)                       \* [^[\]]

MatchAt(s, i) == IF s[i] = "[" THEN MatchBody(s, i + 1) ELSE 0

\* re.search: the match at the leftmost position where the pattern matches.
SearchBrackets(s) ==
    IF \E i \in 1..Len(s) : MatchAt(s, i) # 0
    THEN LET i == CHOOSE i \in 1..Len(s) :
                      MatchAt(s, i) # 0 /\ \A k \in 1..(i - 1) : MatchAt(s, k) = 0
         IN  <<i, MatchAt(s, i)>>
    ELSE <<0, 0>>

\* match.group(0) if match else ""
Outermost(s, span) == IF span[1] = 0 THEN <<>> ELSE SubSeq(s, span[1], span[2])

\* outermost_content.replace("\n", "")
IsNotNewline(c) == c # "\n"
StripNewlines(s) == SelectSeq(s, IsNotNewline)

\* ------------------------------------------------------ specification items
(* Characters of the item names and types: hou du = 厚度, wu du = 雾度,      *)
(* se du = 色度, ding liang = 定量, ding xing = 定性; "inf" = the sign ∞.     *)
Item(code, item, type, upper, lower, unit) ==
    [code |-> code, item |-> item, type |-> type,
     upper |-> upper, lower |-> lower, unit |-> unit]

WithoutKey(d, key) == [k \in (DOMAIN d) \ {key} |-> d[k]]

Thickness    == Str(<<"hou", "du">>)
Haze         == Str(<<"wu", "du">>)
Chroma       == Str(<<"se", "du">>)
Quantitative == Str(<<"ding", "liang">>)
Qualitative  == Str(<<"ding", "xing">>)

ItemThk  == Item(Str(<<"P", "1">>), Thickness, Quantitative, Str(<<>>), Str(<<>>),
                 Str(<<"m", "m">>))
ItemHaze == Item(Str(<<"P", "2">>), Haze, Qualitative, Str(<<"0">>), Str(<<"0">>),
                 Str(<<"-">>))
ItemChr  == Item(Str(<<>>), Chroma, Quantitative, Str(<<"inf">>), Str(<<>>),
                 Str(<<"-">>))

\* Dict literals that can occur in the model's answer, each written in the
\* text as one character.
DictLiteral(c) ==
    CASE c = "{thk}"   -> [item |-> Thickness, type |-> Quantitative,
                           upper |-> Str(<<"0", ".", "5">>), lower |-> Str(<<"0">>),
                           unit |-> Str(<<"m", "m">>)]
      [] c = "{big}"   -> [item |-> Haze, type |-> Qualitative,
                           upper |-> Str(<<"1", "0", "0", "0", "0", "0", "0">>),
                           lower |-> Str(<<"0">>), unit |-> Str(<<"-">>)]
      [] c = "{coded}" -> [code |-> Str(<<"P", "9">>), item |-> Thickness,
                           type |-> Quantitative, upper |-> Str(<<"1">>),
                           lower |-> Str(<<"0">>), unit |-> Str(<<"m", "m">>)]
      [] c = "{nolim}" -> [item |-> Thickness, type |-> Quantitative,
                           unit |-> Str(<<"m", "m">>)]

DictChars == {"{thk}", "{big}", "{coded}", "{nolim}"}
Digits == {"0", "1", "2", "3", "4", "5", "6", "7", "8", "9"}

\* ---------------------------------------------------------- ast.literal_eval
(* The literals of the model: a list display [v, v, ...] (a trailing comma *)
(* allowed), an integer, a dict literal.  A parse yields                   *)
(* [ok, val, next]: next is the position after the value.                  *)
Parsed(val, next) == [ok |-> TRUE, val |-> val, next |-> next]
NoParse == [ok |-> FALSE, val |-> None, next |-> 0]

DigitsEnd(s, i) ==
    IF \E j \in i..Len(s) : s[j] \notin Digits
    THEN CHOOSE j \in i..Len(s) :
             s[j] \notin Digits /\ \A k \in i..(j - 1) : s[k] \in Digits
    ELSE Len(s) + 1

RECURSIVE ParseValue(_, _), ParseItems(_, _, _)
ParseValue(s, i) ==
    IF i > Len(s) THEN NoParse
    ELSE IF s[i] = "[" THEN ParseItems(s, i + 1, <<>>)
    ELSE IF s[i] \in Digits
    THEN Parsed(Num(SubSeq(s, i, DigitsEnd(s, i) - 1)), DigitsEnd(s, i))
    ELSE IF s[i] \in DictChars THEN Parsed(Dict(DictLiteral(s[i])), i + 1)
    ELSE NoParse

ParseItems(s, i, acc) ==
    IF i > Len(s) THEN NoParse
    ELSE IF s[i] = "]" THEN Parsed(List(acc), i + 1)
    ELSE LET v == ParseValue(s, i) IN
         IF ~v.ok \/ v.next > Len(s) THEN NoParse
         ELSE IF s[v.next] = "," THEN ParseItems(s, v.next + 1, Append(acc, v.val))
         ELSE IF s[v.next] = "]" THEN Parsed(List(Append(acc, v.val)), v.next + 1)
         ELSE NoParse

\* ast.literal_eval(clean_text): ok is FALSE when it raises.
LiteralEval(s) ==
    LET r == ParseValue(s, 1) IN
    IF r.ok /\ r.next = Len(s) + 1 THEN r ELSE NoParse

ProcessContent_EmptyOnFailure(raw) ==
    LET cleaned == TextAt(raw, CleanedIdx(raw))
        r       == LiteralEval(StripNewlines(Outermost(cleaned, SearchBrackets(cleaned))))
    IN  IF r.ok THEN r.val ELSE List(<<>>)

\* process_content(full_content): the parsed literal, None when anything raised.
ProcessContent(raw) ==
    LET cleaned == TextAt(raw, CleanedIdx(raw))
        r       == LiteralEval(StripNewlines(Outermost(cleaned, SearchBrackets(cleaned))))
    IN  IF r.ok THEN r.val ELSE None

\* Inputs of process_content: the concatenations of at most MaxTok tokens,
\* tokens of reasoning text or tokens of list text.
ThinkTokens == {OPEN, CLOSE, <<"[", "]">>, <<"<">>, <<"T", ">">>}
ListTokens  == {<<"[">>, <<"]">>, <<"1">>, <<",">>, <<"\n">>}

RECURSIVE Flatten(_)
Flatten(ts) == IF ts = <<>> THEN <<>> ELSE Head(ts) \o Flatten(Tail(ts))

TokenTexts(tokens) ==
    UNION {{Flatten(ts) : ts \in [1..n -> tokens]} : n \in 0..MaxTok}

Contents == TokenTexts(ThinkTokens) \cup TokenTexts(ListTokens)

\* ------------------------------------------------- process_content actions
PCInit ==
    /\ pc_pc = "start"
    /\ response_content \in Contents
    /\ cleaned_idx = <<>>
    /\ cleaned_content = <<>>
    /\ match_span = <<0, 0>>
    /\ clean_text = <<>>
    /\ data_list = None
    /\ SSEIdle
    /\ HIdle
    /\ FnIdle

\* The whole of process_content, its intermediate values kept.
RunProcessContent ==
    /\ pc_pc = "start"
    /\ cleaned_idx' = CleanedIdx(response_content)
    /\ cleaned_content' = TextAt(response_content, cleaned_idx')
    /\ match_span' = SearchBrackets(cleaned_content')
    /\ clean_text' = StripNewlines(Outermost(cleaned_content', match_span'))
    /\ data_list' = ProcessContent(response_content)
    /\ pc_pc' = "done"
    /\ UNCHANGED response_content

PCNext == RunProcessContent /\ UNCHANGED <<sse_vars, h_vars, fn_vars>>

SpecPC == PCInit /\ [][PCNext]_vars

\* ------------------------------------------------ optimize_markdown_content
(* Markdown text: "x" is any other character; a character of TableChars    *)
(* stands for the text <table ... </table> of one HTML table.              *)
Whitespace == {" ", "\t", "\n"}

\* Rows of the table a character stands for: for each <tr>, the text
\* get_text(strip=True) gives for each of its td/th cells.
TableLiteral(c) ==
    CASE c = "{table0}" -> <<>>
      [] c = "{table1}" -> << << <<"a">>, <<"b">> >> >>
      [] c = "{table3}" -> << << <<"a">>, <<"b">> >>, <<>>, << <<"c">>, <<"d">> >> >>
      [] c = "{tableE}" -> << <<>>, <<>> >>
      [] c = "{table2}" -> << << <<"a">> >>, << <<"b">>, <<>>, <<"c">> >>, << <<"d">> >> >>
      [] c = "{tableP}" -> << << <<"a", "|", "b">> >>, << <<"c">> >> >>
      [] c = "{tableI}" -> << << <<"!", "[", "x", "]", "(", "x", ")">> >> >>
      [] c = "{tableW}" -> << << <<"a", " ", " ", "b">> >>,
                              << <<"c", "\t", "\n", "\n", "\n", "d">> >> >>

TableChars ==
    {"{table0}", "{table1}", "{table3}", "{tableE}", "{table2}", "{tableP}", "{tableI}",
     "{tableW}"}

\* re.sub(r'!\[.*?\]\(.*?\)', '', s) from position i ('.' matches no newline).
FindOnLine(s, i, pat) ==
    IF FindFrom(s, i, pat) # 0
       /\ \A k \in i..(FindFrom(s, i, pat) - 1) : s[k] # "\n"
    THEN FindFrom(s, i, pat)
    ELSE 0

RECURSIVE SubImages(_, _)
SubImages(s, i) ==
    IF i > Len(s) THEN <<>>
    ELSE IF StartsWithAt(s, i, <<"!", "[">>)
            /\ FindOnLine(s, i + 2, <<"]", "(">>) # 0
            /\ FindOnLine(s, FindOnLine(s, i + 2, <<"]", "(">>) + 2, <<")">>) # 0
    THEN SubImages(s, FindOnLine(s, FindOnLine(s, i + 2, <<"]", "(">>) + 2, <<")">>) + 1)
    ELSE <<s[i]>> \o SubImages(s, i + 1)

\* '|' + '|'.join(cells) + '|'
RECURSIVE JoinCells(_)
JoinCells(cells) ==
    IF cells = <<>> THEN <<>> ELSE Head(cells) \o <<"|">> \o JoinCells(Tail(cells))

RowText(cells) == <<"|">> \o JoinCells(cells)

\* rows: the text of every <tr> that has cells.
RECURSIVE TableRows(_)
TableRows(trs) ==
    IF trs = <<>> THEN <<>>
    ELSE IF Head(trs) # <<>> THEN <<RowText(Head(trs))>> \o TableRows(Tail(trs))
    ELSE TableRows(Tail(trs))

CountChar(s, c) == Cardinality({k \in 1..Len(s) : s[k] = c})

RECURSIVE Separator(_)
Separator(n) == IF n <= 0 THEN <<>> ELSE <<"---", "|">> \o Separator(n - 1)

RECURSIVE JoinLines(_)
JoinLines(rows) ==
    IF rows = <<>> THEN <<>>
    ELSE IF Len(rows) = 1 THEN rows[1]
    ELSE Head(rows) \o <<"\n">> \o JoinLines(Tail(rows))

\* simple_table(match)
SimpleTable(c) ==
    LET rows == TableRows(TableLiteral(c)) IN
    IF Len(rows) < 2
    THEN (IF rows # <<>> THEN rows[1] ELSE <<>>)
    ELSE LET n   == CountChar(rows[1], "|") - 1
             sep == IF n <= 0 THEN <<"|", "|">> ELSE <<"|">> \o Separator(n)
         IN  rows[1] \o <<"\n">> \o sep \o <<"\n">> \o JoinLines(Tail(rows))

RECURSIVE SubTables(_)
SubTables(s) ==
    IF s = <<>> THEN <<>>
    ELSE IF Head(s) \in TableChars THEN SimpleTable(Head(s)) \o SubTables(Tail(s))
    ELSE <<Head(s)>> \o SubTables(Tail(s))

\* re.sub(r' +', ' ', s)
RECURSIVE SubSpaces(_)
SubSpaces(s) ==
    IF s = <<>> THEN <<>>
    ELSE IF Head(s) = " " /\ Len(s) > 1 /\ s[2] = " " THEN SubSpaces(Tail(s))
    ELSE <<Head(s)>> \o SubSpaces(Tail(s))

\* End of the run of spaces and tabs that starts at i (i - 1 if there is none).
RECURSIVE BlankRunEnd(_, _)
BlankRunEnd(s, i) ==
    IF i <= Len(s) /\ s[i] \in {" ", "\t"} THEN BlankRunEnd(s, i + 1) ELSE i - 1

\* re.sub(r'[ \t]+\n', '\n', s) from position i.
RECURSIVE SubTrailing(_, _)
SubTrailing(s, i) ==
    IF i > Len(s) THEN <<>>
    ELSE IF BlankRunEnd(s, i) >= i /\ BlankRunEnd(s, i) < Len(s)
            /\ s[BlankRunEnd(s, i) + 1] = "\n"
    THEN <<"\n">> \o SubTrailing(s, BlankRunEnd(s, i) + 2)
    ELSE <<s[i]>> \o SubTrailing(s, i + 1)

\* re.sub(r'\n{2,}', '\n\n', s)
RECURSIVE SubBlankLines(_)
SubBlankLines(s) ==
    IF s = <<>> THEN <<>>
    ELSE IF Len(s) > 2 /\ s[1] = "\n" /\ s[2] = "\n" /\ s[3] = "\n"
    THEN SubBlankLines(Tail(s))
    ELSE <<Head(s)>> \o SubBlankLines(Tail(s))

\* s.strip()
RECURSIVE LStrip(_), RStrip(_)
LStrip(s) == IF s # <<>> /\ Head(s) \in Whitespace THEN LStrip(Tail(s)) ELSE s
RStrip(s) ==
    IF s # <<>> /\ s[Len(s)] \in Whitespace THEN RStrip(SubSeq(s, 1, Len(s) - 1)) ELSE s
Strip(s) == RStrip(LStrip(s))

\* The whitespace steps run before the tables are converted.
OptimizeMarkdownContent_TablesLast(md) ==
    Strip(SubTables(SubBlankLines(SubTrailing(SubSpaces(SubImages(md, 1)), 1))))

OptimizeMarkdownContent(md) ==
    Strip(SubBlankLines(SubTrailing(SubSpaces(SubTables(SubImages(md, 1))), 1)))

\* ------------------------------------------------------------ post-processing
\* Python truthiness of a value.
IsTrue(v) ==
    CASE v.t = "none" -> FALSE
      [] v.t = "str"  -> v.s # <<>>
      [] v.t = "num"  -> \E k \in 1..Len(v.s) : v.s[k] \notin {"0", ".", "-"}
      [] v.t = "dict" -> DOMAIN v.d # {}
      [] v.t = "list" -> v.l # <<>>

\* item.get(key)
Get(d, key) == IF key \in DOMAIN d THEN d[key] ELSE None

\* An exception: its class and str(e).
Exc(type, msg) == [type |-> type, msg |-> msg]
NoExc == Exc("none", "")
Ok(val) == [ok |-> TRUE, val |-> val, exc |-> NoExc]
Raise(e) == [ok |-> FALSE, val |-> None, exc |-> e]

NotIterable(v) ==
    Exc("TypeError", IF v.t = "none" THEN "'NoneType' object is not iterable"
                     ELSE "'int' object is not iterable")
NoAttributeGet == Exc("AttributeError", "object has no attribute 'get'")
KeyError(key) == Exc("KeyError", key)

\* remove_key_from_list_dicts(data_list, key_to_remove)
RemoveKeyFromListDicts(items, key) ==
    [i \in 1..Len(items) |-> Dict(WithoutKey(items[i].d, key))]

\* create_inspection_mapping(data_list): a function from names to codes.
RECURSIVE CreateInspectionMapping(_)
CreateInspectionMapping(items) ==
    IF items = <<>> THEN <<>>
    ELSE LET n    == Len(items)
             m    == CreateInspectionMapping(SubSeq(items, 1, n - 1))
             code == Get(items[n].d, "code")
             name == Get(items[n].d, "item")
         IN  IF IsTrue(code) /\ IsTrue(name)
             THEN [k \in (DOMAIN m) \cup {name} |-> IF k = name THEN code ELSE m[k]]
             ELSE m

CompleteOne_Overwrite(d, mapping) ==
    LET name == Get(d, "item")
    IN  IF IsTrue(name) /\ name \in DOMAIN mapping
        THEN [k \in (DOMAIN d) \cup {"code"} |-> IF k = "code" THEN mapping[name] ELSE d[k]]
        ELSE d

\* The body of the loop of complete_project_codes on one dict.
CompleteOne(d, mapping) ==
    LET code == Get(d, "code")
        name == Get(d, "item")
    IN  IF IsTrue(name) /\ (~IsTrue(code) \/ (code.t = "str" /\ code.s = <<>>))
           /\ name \in DOMAIN mapping
        THEN [k \in (DOMAIN d) \cup {"code"} |-> IF k = "code" THEN mapping[name] ELSE d[k]]
        ELSE d

\* complete_project_codes(data_list, mapping_dict)
CompleteProjectCodes_NoneAsEmpty(lst, mapping) ==
    IF lst.t # "list" THEN Ok(List(<<>>))
    ELSE IF \E i \in 1..Len(lst.l) : lst.l[i].t # "dict"
    THEN Raise(NoAttributeGet)
    ELSE Ok(List([i \in 1..Len(lst.l) |-> Dict(CompleteOne(lst.l[i].d, mapping))]))

CompleteProjectCodes(lst, mapping) ==
    IF lst.t \in {"none", "num"} THEN Raise(NotIterable(lst))   \* for item in data_list
    ELSE IF lst.t # "list" THEN Raise(NoAttributeGet)
    ELSE IF \E i \in 1..Len(lst.l) : lst.l[i].t # "dict"
    THEN Raise(NoAttributeGet)                                  \* item.get
    ELSE Ok(List([i \in 1..Len(lst.l) |-> Dict(CompleteOne(lst.l[i].d, mapping))]))

\* float(value) for the decimal notation [-]digits[.digits]: ok is FALSE
\* when it raises ValueError; int and frac are the digits around the point.
ParseFloat(s) ==
    LET body == IF s # <<>> /\ s[1] = "-" THEN Tail(s) ELSE s
        dot  == IF \E k \in 1..Len(body) : body[k] = "."
                THEN CHOOSE k \in 1..Len(body) : body[k] = "." ELSE Len(body) + 1
        ip   == SubSeq(body, 1, dot - 1)
        fp   == SubSeq(body, dot + 1, Len(body))
    IN  [ok   |-> /\ \A k \in 1..Len(ip) : ip[k] \in Digits
                  /\ \A k \in 1..Len(fp) : fp[k] \in Digits
                  /\ ip \o fp # <<>>,
         neg  |-> s # <<>> /\ s[1] = "-",
         int  |-> ip,
         frac |-> fp]

DigitVal(c) ==
    CASE c = "0" -> 0 [] c = "1" -> 1 [] c = "2" -> 2 [] c = "3" -> 3 [] c = "4" -> 4
      [] c = "5" -> 5 [] c = "6" -> 6 [] c = "7" -> 7 [] c = "8" -> 8 [] c = "9" -> 9

DigitChar(n) == <<"0", "1", "2", "3", "4", "5", "6", "7", "8", "9">>[n + 1]

RECURSIVE DropZeros(_)
DropZeros(s) == IF s # <<>> /\ Head(s) = "0" THEN DropZeros(Tail(s)) ELSE s

NonZero(s) == \E k \in 1..Len(s) : s[k] # "0"

RECURSIVE DigitsVal(_)
DigitsVal(s) ==
    IF s = <<>> THEN 0 ELSE 10 * DigitsVal(SubSeq(s, 1, Len(s) - 1)) + DigitVal(s[Len(s)])

threshold == 100000

\* abs(num) > threshold
ExceedsThreshold(f) ==
    LET ip == DropZeros(f.int) IN
    \/ Len(ip) > 9
    \/ /\ Len(ip) <= 9
       /\ \/ DigitsVal(ip) > threshold
          \/ DigitsVal(ip) = threshold /\ NonZero(f.frac)

\* f"{num:.2E}" for abs(num) > 100000: three significant digits, rounded
\* half to even, and the exponent with at least two digits.
FormatScientific(f) ==
    LET ip   == DropZeros(f.int)
        ds   == ip \o f.frac
        e    == Len(ip) - 1
        m    == 100 * DigitVal(ds[1]) + 10 * DigitVal(ds[2]) + DigitVal(ds[3])
        rest == SubSeq(ds, 4, Len(ds))
        up   == /\ rest # <<>>
                /\ \/ DigitVal(rest[1]) > 5
                   \/ DigitVal(rest[1]) = 5 /\ (NonZero(Tail(rest)) \/ m % 2 = 1)
        r    == IF up THEN m + 1 ELSE m
        mm   == IF r = 1000 THEN 100 ELSE r
        ee   == IF r = 1000 THEN e + 1 ELSE e
    IN  (IF f.neg THEN <<"-">> ELSE <<>>)
            \o <<DigitChar(mm \div 100), ".", DigitChar((mm \div 10) % 10), DigitChar(mm % 10),
                 "E", "+", DigitChar((ee \div 10) % 10), DigitChar(ee % 10)>>

ConvertValue_NoneOnError(value) ==
    IF value.t # "str" \/ value.s = <<"inf">> \/ value.s = <<>>
    THEN value
    ELSE LET f == ParseFloat(value.s) IN
         IF ~f.ok THEN None
         ELSE IF ExceedsThreshold(f) THEN Str(FormatScientific(f))
         ELSE value

\* convert_value(value)
ConvertValue(value) ==
    IF value.t # "str" \/ value.s = <<"inf">> \/ value.s = <<>>
    THEN value
    ELSE LET f == ParseFloat(value.s) IN
         IF ~f.ok THEN value                                    \* except ValueError
         ELSE IF ExceedsThreshold(f) THEN Str(FormatScientific(f))
         ELSE value

ConvertItem(d) ==
    [k \in DOMAIN d |-> IF k \in {"upper", "lower"} THEN ConvertValue(d[k]) ELSE d[k]]

\* convert_large_numbers_to_scientific(data_list)
ConvertLargeNumbersToScientific(lst) ==
    IF \E i \in 1..Len(lst.l) : lst.l[i].t # "dict"
    THEN Raise(Exc("AttributeError", "object has no attribute 'copy'"))
    ELSE IF \E i \in 1..Len(lst.l) : {"upper", "lower"} \ DOMAIN lst.l[i].d # {}
    THEN LET i == CHOOSE i \in 1..Len(lst.l) :
                      /\ {"upper", "lower"} \ DOMAIN lst.l[i].d # {}
                      /\ \A k \in 1..(i - 1) : {"upper", "lower"} \subseteq DOMAIN lst.l[k].d
         IN  Raise(KeyError(IF "upper" \in DOMAIN lst.l[i].d THEN "lower" ELSE "upper"))
    ELSE Ok(List([i \in 1..Len(lst.l) |-> Dict(ConvertItem(lst.l[i].d))]))

\* The argument of convert_large_numbers_to_scientific when the limits are
\* written to the records of the argument themselves.
DataListAfter_InPlace(lst) ==
    IF ConvertLargeNumbersToScientific(lst).ok
    THEN ConvertLargeNumbersToScientific(lst).val
    ELSE lst

\* The argument of convert_large_numbers_to_scientific after the call: the
\* limits are written to item.copy() and the copies appended to a new list.
DataListAfter(lst) == lst

\* _build_prompt(...): the parts of the template that vary.
BuildPrompt(md, items, fix) ==
    [check_pro |-> items, md_content |-> md,
     languge_ |-> IF fix THEN "CF" ELSE "TFT"]

\* --------------------------------------------------------------- SSE lines
(* A line of the event stream, by the shape the code inspects.             *)
(*   kind    : "blank" (empty line), "other" (does not start with data:),  *)
(*             "done" (data: [DONE]), "badjson" (payload json.loads        *)
(*             rejects), "json" (payload json.loads accepts)               *)
(*   top     : JSON type of the payload                                    *)
(*   choices : shape of chunk_data['choices'] ("absent" when no such key)  *)
(*   first   : shape of choices[0] when choices is a non-empty list        *)
(*   delta   : shape of choices[0]['delta'] ("absent" when no such key)    *)
(*   content : shape of delta['content'] ("absent" when no such key)       *)
(*   text    : the characters of content when content is a string          *)
Line(kind, top, choices, first, delta, content, text) ==
    [kind |-> kind, top |-> top, choices |-> choices, first |-> first,
     delta |-> delta, content |-> content, text |-> text]

Chunk(content, text) == Line("json", "dict", "list", "dict", "dict", content, text)

LnBlank        == Line("blank", "-", "-", "-", "-", "-", <<>>)
LnOther        == Line("other", "-", "-", "-", "-", "-", <<>>)
LnDone         == Line("done", "-", "-", "-", "-", "-", <<>>)
LnBadJson      == Line("badjson", "-", "-", "-", "-", "-", <<>>)
LnNotDict      == Line("json", "list", "-", "-", "-", "-", <<>>)
LnNoChoices    == Line("json", "dict", "absent", "-", "-", "-", <<>>)
LnEmptyChoices == Line("json", "dict", "emptylist", "-", "-", "-", <<>>)
LnA            == Chunk("str", <<"a">>)
LnB            == Chunk("str", <<"b">>)
LnEmptyContent == Chunk("str", <<>>)
LnNullContent  == Chunk("null", <<>>)
LnNoDelta      == Line("json", "dict", "list", "dict", "absent", "-", <<>>)
LnNullDelta    == Line("json", "dict", "list", "dict", "null", "-", <<>>)
LnNumContent   == Chunk("num", <<>>)
LnNullFirst    == Line("json", "dict", "list", "null", "-", "-", <<>>)
LnStrChoices   == Line("json", "dict", "str", "-", "-", "-", <<>>)

Lines == {LnBlank, LnOther, LnDone, LnBadJson, LnNotDict, LnNoChoices,
          LnEmptyChoices, LnA, LnB, LnEmptyContent, LnNullContent, LnNoDelta,
          LnNullDelta, LnNumContent, LnNullFirst, LnStrChoices}

Streams == UNION {[1..n -> Lines] : n \in 0..MaxLines}

StatusCodes == {200, 404, 500}

\* Python truthiness of a JSON value of the given shape.
Truthy(shape) == shape \in {"list", "dict", "num", "str", "true"}

\* The loop body for one line: what becomes of the accumulator, and whether
\* the loop goes on ("next"), breaks ("break") or an exception leaves the
\* with-block ("raise").
Step(ctl, full) == [ctl |-> ctl, full |-> full]

\* delta = choices[0].get('delta', {}); content = delta.get('content', '');
\* if content: full_content += content
AppendDelta_Lenient(line, full) ==
    IF line.delta # "dict" \/ line.content = "absent"
    THEN Step("next", full)
    ELSE IF line.content = "str"
    THEN Step("next", IF line.text # <<>> THEN full \o line.text ELSE full)
    ELSE IF Truthy(line.content)
    THEN Step("raise", full)
    ELSE Step("next", full)

AppendDelta(line, full) ==
    IF line.delta = "absent"
    THEN Step("next", full)                        \* delta = {}, content = ''
    ELSE IF line.delta # "dict"
    THEN Step("raise", full)                       \* delta.get: AttributeError
    ELSE IF line.content = "absent"
    THEN Step("next", full)                        \* content = ''
    ELSE IF line.content = "str"
    THEN Step("next", IF line.text # <<>> THEN full \o line.text ELSE full)
    ELSE IF Truthy(line.content)
    THEN Step("raise", full)                       \* str += non-str: TypeError
    ELSE Step("next", full)

\* The try-block on a payload json.loads accepted.
JsonChunk(line, full) ==
    IF ~(line.top = "dict" /\ line.choices # "absent" /\ Truthy(line.choices))
    THEN Step("next", full)
    ELSE IF line.choices # "list" /\ line.choices # "str"
    THEN Step("raise", full)                       \* choices[0]: KeyError / TypeError
    ELSE IF line.choices = "str" \/ line.first # "dict"
    THEN Step("raise", full)                       \* .get: AttributeError
    ELSE AppendDelta(line, full)

\* The loop body on one line.
ParseLine_NoBreak(line, full) ==
    IF line.kind \in {"blank", "other", "done", "badjson"}
    THEN Step("next", full)
    ELSE JsonChunk(line, full)

ParseLine_BadJsonAborts(line, full) ==
    IF line.kind = "blank" \/ line.kind = "other"
    THEN Step("next", full)
    ELSE IF line.kind = "done"
    THEN Step("break", full)
    ELSE IF line.kind = "badjson"
    THEN Step("raise", full)
    ELSE JsonChunk(line, full)

ParseLine(line, full) ==
    IF line.kind = "blank" \/ line.kind = "other"
    THEN Step("next", full)                        \* if line and line.startswith('data:')
    ELSE IF line.kind = "done"
    THEN Step("break", full)                       \* data_str == '[DONE]'
    ELSE IF line.kind = "badjson"
    THEN Step("next", full)                        \* except json.JSONDecodeError: continue
    ELSE JsonChunk(line, full)

\* The value the call returns when the lines of s are read to the end with
\* no transport failure.
RECURSIVE RunLines(_, _, _)
RunLines(s, i, full) ==
    IF i > Len(s)
    THEN full
    ELSE LET r == ParseLine(s[i], full) IN
         CASE r.ctl = "next"  -> RunLines(s, i + 1, r.full)
           [] r.ctl = "break" -> r.full
           [] r.ctl = "raise" -> <<>>

RunStream(s) == RunLines(s, 1, <<>>)

\* ------------------------------------------------------------- SSE actions
SSEInit ==
    /\ sse_pc = "start"
    /\ stream \in Streams
    /\ pos = 0
    /\ status_code = 0
    /\ full_content = <<>>
    /\ sse_ret = <<>>
    /\ n_post = 0
    /\ raised = "none"
    /\ PCIdle
    /\ HIdle
    /\ FnIdle

\* requests.post(url, json=payload, headers=headers, stream=True) answers.
Post ==
    /\ sse_pc = "start"
    /\ n_post' = n_post + 1
    /\ \E sc \in StatusCodes : status_code' = sc
    /\ sse_pc' = "reading"
    /\ UNCHANGED <<stream, pos, full_content, sse_ret, raised>>

\* requests.post raises (connection refused, ...): the outer except returns "".
PostRaises ==
    /\ sse_pc = "start"
    /\ n_post' = n_post + 1
    /\ raised' = "RequestException"
    /\ sse_ret' = <<>>
    /\ sse_pc' = "returned"
    /\ UNCHANGED <<stream, pos, status_code, full_content>>

\* The else branch of the status test: print and return "".
NonSuccess_Retry ==
    /\ sse_pc = "reading"
    /\ status_code # 200
    /\ n_post < 3
    /\ sse_pc' = "start"
    /\ UNCHANGED <<stream, pos, status_code, full_content, sse_ret, n_post, raised>>

NonSuccess ==
    /\ sse_pc = "reading"
    /\ status_code # 200
    /\ sse_ret' = <<>>
    /\ sse_pc' = "returned"
    /\ UNCHANGED <<stream, pos, status_code, full_content, n_post, raised>>

\* iter_lines yields the next line and the loop body runs on it.
IterLine ==
    /\ sse_pc = "reading"
    /\ status_code = 200
    /\ pos < Len(stream)
    /\ LET r == ParseLine(stream[pos + 1], full_content) IN
         /\ pos' = pos + 1
         /\ full_content' = r.full
         /\ CASE r.ctl = "next"  -> /\ UNCHANGED <<sse_pc, sse_ret, raised>>
              [] r.ctl = "break" -> /\ sse_pc' = "returned"
                                    /\ sse_ret' = r.full
                                    /\ UNCHANGED raised
              [] r.ctl = "raise" -> /\ sse_pc' = "returned"
                                    /\ sse_ret' = <<>>
                                    /\ raised' = "Exception"
    /\ UNCHANGED <<stream, status_code, n_post>>

\* iter_lines is exhausted: the connection ended without a sentinel.
EndOfStream ==
    /\ sse_pc = "reading"
    /\ status_code = 200
    /\ pos = Len(stream)
    /\ sse_ret' = full_content
    /\ sse_pc' = "returned"
    /\ UNCHANGED <<stream, pos, status_code, full_content, n_post, raised>>

\* iter_lines raises while waiting for the next line (the connection broke).
TransportError ==
    /\ sse_pc = "reading"
    /\ status_code = 200
    /\ raised' = "RequestException"
    /\ sse_ret' = <<>>
    /\ sse_pc' = "returned"
    /\ UNCHANGED <<stream, pos, status_code, full_content, n_post>>

SSENext ==
    /\ Post \/ PostRaises \/ NonSuccess \/ IterLine \/ EndOfStream \/ TransportError
    /\ UNCHANGED <<pc_vars, h_vars, fn_vars>>

SpecSSE == SSEInit /\ [][SSENext]_vars

\* ---------------------------------------------------- process_specification
RequiredFields_NoUnit == {"code", "item", "type", "upper", "lower"}

RequiredFields == {"code", "item", "type", "upper", "lower", "unit"}

ItemNumName == Item(Str(<<"P", "3">>), Num(<<"5">>), Quantitative, Str(<<>>), Str(<<>>),
                    Str(<<"-">>))

\* A second item of the name of ItemThk, with a code of its own.
ItemThk2 == Item(Str(<<"P", "7">>), Thickness, Quantitative, Str(<<>>), Str(<<>>),
                 Str(<<"m", "m">>))

\* An item whose name holds the two characters of Haze between others.
ItemInnerHaze == Item(Str(<<"P", "4">>), Str(<<"nei", "wu", "du", "zhi">>), Quantitative,
                      Str(<<>>), Str(<<>>), Str(<<"%">>))

\* The elements a dataList can hold: full items, two of them of one name, an
\* item lacking one of the required keys, and a value that is no dict.
Elems ==
    {Dict(ItemThk), Dict(ItemThk2), Dict(ItemHaze), Dict(ItemInnerHaze), Dict(ItemChr),
     Dict(ItemNumName), Num(<<"5">>)}
        \cup {Dict(WithoutKey(ItemThk, k)) : k \in DOMAIN ItemThk}

DataLists == UNION {[1..n -> Elems] : n \in 0..MaxItems}

FormFields ==
    {[form |-> f, value |-> None] : f \in {"absent", "empty", "badjson"}}
        \cup {[form |-> "json", value |-> v] :
                 v \in {List(l) : l \in DataLists} \cup {Dict(ItemThk), None, Num(<<"5">>)}}

Requests ==
    {[has_file |-> b, form |-> f.form, value |-> f.value] : b \in BOOLEAN, f \in FormFields}

\* The document text "hou du <= 0.5 mm"; "le" is the sign of at most.
Phrase == <<"hou", "du", " ", "le", " ", "0", ".", "5", " ", "m", "m">>

MdDocs ==
    {<<"x", " ", " ", "x", " ", "\n", "\n", "\n", "{table3}", "\n">>,
     <<"!", "[", "x", "]", "(", "x", ")"
       >> \o Phrase \o <<"{table1}">>}

\* The texts the inference call can return.
RespTexts ==
    {<<>>,
     <<"x">>,
     <<"[", "x", "]">>,
     <<"[", "]">>,
     <<"[", "1", "]">>,
     <<"[", "{nolim}", "]">>,
     <<"[", "{coded}", ",", "{thk}", "]">>,
     OPEN \o <<"[", "]">> \o CLOSE \o <<"x", "[", "{thk}", ",", "\n", "{big}", "]">>}

Respond(status, body) == [status |-> status, body |-> body]

\* s contains sub as a substring.
Contains(s, sub) == \E i \in 1..(Len(s) + 1) : StartsWithAt(s, i, sub)

\* Lines 34-72: the response of a request that fails validation, status 0
\* for a request that passes.
Validation(req) ==
    IF ~req.has_file
    THEN Respond(400, [error |-> ErrorBody("no PDF file", 0, {})])
    ELSE IF req.form \in {"absent", "empty"}
    THEN Respond(400, [error |-> ErrorBody("no dataList", 0, {})])
    ELSE IF req.form = "badjson"
    THEN Respond(400, [error |-> ErrorBody("dataList is not valid JSON", 0, {})])
    ELSE IF req.value.t # "list"
    THEN Respond(400, [error |-> ErrorBody("dataList must be a list", 0, {})])
    ELSE LET items == req.value.l
             Bad(i) == items[i].t # "dict" \/ RequiredFields \ DOMAIN items[i].d # {}
         IN  IF \E i \in 1..Len(items) : Bad(i)
             THEN LET i == CHOOSE i \in 1..Len(items) :
                               Bad(i) /\ \A k \in 1..(i - 1) : ~Bad(k)
                  IN  IF items[i].t # "dict"
                      THEN Respond(400, [error |-> ErrorBody("item must be a dict", i, {})])
                      ELSE Respond(400, [error |-> ErrorBody("item lacks fields", i,
                                                     RequiredFields \ DOMAIN items[i].d)])
             ELSE NoResponse

\* any("雾度" in s for s in fix_program_list): raises TypeError on a name
\* that is no string, unless an earlier name already holds the characters.
FixProgram_Exact(items) ==
    LET Hit(i) == items[i].d["item"] = Haze
        Odd(i) == items[i].d["item"].t # "str"
    IN  IF \E i \in 1..Len(items) : Odd(i) /\ \A k \in 1..(i - 1) : ~Hit(k)
        THEN Raise(Exc("TypeError", "argument is not iterable"))
        ELSE [ok |-> TRUE, val |-> (\E i \in 1..Len(items) : Hit(i)), exc |-> NoExc]

FixProgram(items) ==
    LET Hit(i) == items[i].d["item"].t = "str"
                  /\ Contains(items[i].d["item"].s, <<"wu", "du">>)
        Odd(i) == items[i].d["item"].t # "str"
    IN  IF \E i \in 1..Len(items) : Odd(i) /\ \A k \in 1..(i - 1) : ~Hit(k)
        THEN Raise(Exc("TypeError", "argument is not iterable"))
        ELSE [ok |-> TRUE, val |-> (\E i \in 1..Len(items) : Hit(i)), exc |-> NoExc]

\* map_pro = create_inspection_mapping(spec_data)
MapPro_AfterRemoval(items) ==
    CreateInspectionMapping(RemoveKeyFromListDicts(items, "code"))

\* The mapping as a module-level dict that is never emptied.
MapPro_Persistent(items) ==
    CreateInspectionMapping(
        (IF remembered.request.value.t = "list" THEN remembered.request.value.l ELSE <<>>)
            \o items)

\* The mapping keeps the code of the first item of a name.
MapPro_FirstWins(items) ==
    CreateInspectionMapping([i \in 1..Len(items) |-> items[Len(items) + 1 - i]])

MapPro(items) == CreateInspectionMapping(items)

\* except Exception as e
Catches_ValueErrorOnly(e) == e.type = "ValueError"

Catches(e) == e.type \notin {"none", "KeyboardInterrupt", "SystemExit"}

HInit ==
    /\ pc = "received"
    /\ request \in Requests
    /\ check_pro = <<>>
    /\ map_pro = <<>>
    /\ fix_program = FALSE
    /\ md_content = <<>>
    /\ payload = [model |-> "", stream |-> FALSE, content |-> BuildPromptIdle]
    /\ exc = NoExc
    /\ http_response = NoResponse
    /\ trace = <<>>
    /\ PCIdle
    /\ SSEIdle
    /\ FnIdle

\* Lines 32-72.
Validate ==
    /\ pc = "received"
    /\ LET v == Validation(request) IN
       IF v.status # 0
       THEN /\ http_response' = v
            /\ pc' = "responded"
            /\ UNCHANGED <<check_pro, map_pro, fix_program, exc>>
       ELSE LET fix == FixProgram(request.value.l) IN
            /\ map_pro' = MapPro(request.value.l)
            /\ check_pro' = RemoveKeyFromListDicts(request.value.l, "code")
            /\ IF fix.ok
               THEN /\ fix_program' = fix.val
                    /\ pc' = "validated"
                    /\ UNCHANGED exc
               ELSE /\ exc' = fix.exc
                    /\ pc' = "raised"
                    /\ UNCHANGED fix_program
            /\ UNCHANGED http_response
    /\ UNCHANGED <<request, md_content, payload, trace, pc_vars, sse_vars, fn_vars>>

\* Lines 75-82: parse_pdf_to_markdown returns the markdown.
ParsePdf ==
    /\ pc = "validated"
    /\ \E md \in MdDocs : md_content' = md
    /\ trace' = Append(trace, "parse_pdf")
    /\ pc' = "parsed"
    /\ UNCHANGED <<request, check_pro, map_pro, fix_program, payload, exc, http_response,
                   pc_vars, sse_vars, fn_vars>>

\* The exception logged and not raised again: "" is returned (line 58).
ParsePdfRaises_Swallowed ==
    /\ pc = "validated"
    /\ exc' = Exc("RuntimeError", "PDF parsing failed")
    /\ trace' = Append(trace, "parse_pdf")
    /\ pc' = "parsed"
    /\ UNCHANGED <<request, check_pro, map_pro, fix_program, md_content, payload,
                   http_response, pc_vars, sse_vars, fn_vars>>

\* parse_pdf_to_markdown logs the exception of the parsing library and raises it again.
ParsePdfRaises ==
    /\ pc = "validated"
    /\ exc' = Exc("RuntimeError", "PDF parsing failed")
    /\ trace' = Append(trace, "parse_pdf")
    /\ pc' = "raised"
    /\ UNCHANGED <<request, check_pro, map_pro, fix_program, md_content, payload,
                   http_response, pc_vars, sse_vars, fn_vars>>

\* Line 85 up to the inference request: the markdown is compacted, the
\* prompt built and posted.
StartInference ==
    /\ pc = "parsed"
    /\ payload' = [model |-> "Qwen3-32B", stream |-> TRUE,
                   content |-> BuildPrompt(OptimizeMarkdownContent(md_content),
                                           check_pro, fix_program)]
    /\ trace' = trace \o <<"compact", "prompt">>
    /\ pc' = "streaming"
    /\ UNCHANGED <<request, check_pro, map_pro, fix_program, md_content, exc,
                   http_response, pc_vars, sse_vars, fn_vars>>

\* The call given up after a while: the handler answers 500 though the
\* stream has not ended.
StreamReturns_OrTimeout ==
    /\ pc = "streaming"
    /\ \/ /\ \E t \in RespTexts : response_content' = t
          /\ pc_pc' = "start"
          /\ trace' = Append(trace, "stream")
          /\ pc' = "streamed"
          /\ UNCHANGED exc
       \/ /\ exc' = Exc("Timeout", "timed out")
          /\ pc' = "raised"
          /\ UNCHANGED <<response_content, pc_pc, trace>>
    /\ UNCHANGED <<request, check_pro, map_pro, fix_program, md_content, payload,
                   http_response, cleaned_idx, cleaned_content, match_span, clean_text,
                   data_list, sse_vars, fn_vars>>

\* stream_and_parse_sse_response returns (it never raises).
StreamReturns ==
    /\ pc = "streaming"
    /\ \E t \in RespTexts : response_content' = t
    /\ pc_pc' = "start"
    /\ trace' = Append(trace, "stream")
    /\ pc' = "streamed"
    /\ UNCHANGED <<request, check_pro, map_pro, fix_program, md_content, payload, exc,
                   http_response, cleaned_idx, cleaned_content, match_span, clean_text,
                   data_list, sse_vars, fn_vars>>

\* result_data = self.process_content(response_content)
Extract ==
    /\ pc = "streamed"
    /\ RunProcessContent
    /\ trace' = Append(trace, "extract")
    /\ pc' = "extracted"
    /\ UNCHANGED <<request, check_pro, map_pro, fix_program, md_content, payload, exc,
                   http_response, sse_vars, fn_vars>>

\* Lines 87-96: back-fill, normalization and the success response.
PostProcess ==
    /\ pc = "extracted"
    /\ LET filled    == CompleteProjectCodes(data_list, map_pro)
           converted == ConvertLargeNumbersToScientific(filled.val)
       IN  IF ~filled.ok
           THEN /\ exc' = filled.exc
                /\ trace' = Append(trace, "backfill")
                /\ pc' = "raised"
                /\ UNCHANGED http_response
           ELSE IF ~converted.ok
           THEN /\ exc' = converted.exc
                /\ trace' = trace \o <<"backfill", "normalize">>
                /\ pc' = "raised"
                /\ UNCHANGED http_response
           ELSE /\ http_response' =
                       Respond(200, [success |-> TRUE, dataList |-> converted.val,
                                     msg |-> "ok"])
                /\ trace' = trace \o <<"backfill", "normalize">>
                /\ pc' = "responded"
                /\ UNCHANGED exc
    /\ UNCHANGED <<request, check_pro, map_pro, fix_program, md_content, payload,
                   pc_vars, sse_vars, fn_vars>>

\* Lines 98-104.
Except ==
    /\ pc = "raised"
    /\ IF Catches(exc)
       THEN /\ http_response' =
                   Respond(500, [success |-> FALSE, error |-> ErrorBody(exc.msg, 0, {}),
                                 msg |-> "failed"])
            /\ pc' = "responded"
       ELSE /\ pc' = "escaped"
            /\ UNCHANGED http_response
    /\ UNCHANGED <<request, check_pro, map_pro, fix_program, md_content, payload, exc,
                   trace, pc_vars, sse_vars, fn_vars>>

Next ==
    \/ Validate \/ ParsePdf \/ ParsePdfRaises \/ StartInference
    \/ StreamReturns \/ Extract \/ PostProcess \/ Except

Spec == HInit /\ [][Next]_vars

\* The handling thread runs each of its own steps once it can; when the
\* parser returns and when the stream ends is not the handler's to decide:
\* requests.post is called without a timeout, and nothing cancels the call.
\* StartInference, Extract and PostProcess are each enabled at exactly one
\* value of pc and leave it: their weak fairness is written on pc.
HandlerFairness ==
    /\ WF_vars(Validate)
    /\ WF_vars(Except)
    /\ []<>(pc # "parsed")
    /\ []<>(pc # "streamed")
    /\ []<>(pc # "extracted")

SpecLive == Spec /\ HandlerFairness

\* ------------------------------------------------------- the server process
(* app.run serves the route: every request is a new call of                *)
(* process_specification, with new locals and a new SpecificationExtractor. *)
(* The module keeps app, logger and log_file, and nothing of a request.     *)
MaxRequests == 3

Member(s, x) == \E i \in 1..Len(s) : s[i] = x

\* The requests sent to the server, a part of Requests.
ServerRequests ==
    {[has_file |-> FALSE, form |-> "json", value |-> List(<<Dict(ItemThk)>>)],
     [has_file |-> TRUE, form |-> "badjson", value |-> None],
     [has_file |-> TRUE, form |-> "json", value |-> List(<<Num(<<"5">>)>>)],
     [has_file |-> TRUE, form |-> "json", value |-> List(<<Dict(ItemNumName)>>)],
     [has_file |-> TRUE, form |-> "json", value |-> List(<<Dict(ItemThk)>>)],
     [has_file |-> TRUE, form |-> "json", value |-> List(<<Dict(ItemHaze)>>)]}

\* What the call that has just answered took in, and its answer.
CurrentExchange ==
    Exchange(request,
             IF ~Member(trace, "parse_pdf") THEN "not called"
             ELSE IF Member(trace, "compact") THEN "returned" ELSE "raised",
             md_content,
             IF Member(trace, "stream") THEN "returned" ELSE "not called",
             response_content, http_response)

ServerInit ==
    /\ request \in ServerRequests
    /\ HInit

\* The call has returned its response; the next request arrives and is
\* handled by a new call.
NextRequest ==
    /\ pc = "responded"
    /\ n_served + 1 < MaxRequests
    /\ n_served' = n_served + 1
    /\ remembered' \in {remembered, CurrentExchange}
    /\ pc' = "received"
    /\ request' \in ServerRequests
    /\ check_pro' = <<>>
    /\ map_pro' = <<>>
    /\ fix_program' = FALSE
    /\ md_content' = <<>>
    /\ payload' = [model |-> "", stream |-> FALSE, content |-> BuildPromptIdle]
    /\ exc' = NoExc
    /\ http_response' = NoResponse
    /\ trace' = <<>>
    /\ pc_pc' = "idle"
    /\ response_content' = <<>>
    /\ cleaned_idx' = <<>>
    /\ cleaned_content' = <<>>
    /\ match_span' = <<0, 0>>
    /\ clean_text' = <<>>
    /\ data_list' = None
    /\ UNCHANGED <<sse_vars, post_vars, opt_vars, sc_vars, par_vars, conv_vars>>

ServerNext == Next \/ NextRequest

SpecServer == ServerInit /\ [][ServerNext]_vars

\* ------------------------------------- parse_pdf_to_markdown, concurrently
(* Two requests inside _parse_with_pipeline at the same time (app.run      *)
(* serves each request on a thread of its own).  The names of the image    *)
(* files are chosen by the parsing library.                                *)
MaxImages == 2

Handlers == {1, 2}
ImageNames == {"a.jpg", "b.jpg"}
ImageLists == UNION {[1..n -> ImageNames] : n \in 0..MaxImages}

\* A directory of its own for each request.
TempDir_PerRequest(t) == IF t = 1 THEN "/tmp/mineru_temp/1" ELSE "/tmp/mineru_temp/2"

\* temp_dir = Path("/tmp/mineru_temp")
TempDir(t) == "/tmp/mineru_temp"

File(dir, name, by) == [dir |-> dir, name |-> name, by |-> by]

\* image_writer.write(name, data): creates the file or replaces it.
WriteFile(fs, dir, name, by) ==
    {f \in fs : ~(f.dir = dir /\ f.name = name)} \cup {File(dir, name, by)}

\* The directory is never emptied: a file of an earlier request (0) may be there.
ParseInit ==
    /\ par_pc = [t \in Handlers |-> "start"]
    /\ images_list = [t \in Handlers |-> <<>>]
    /\ n_written = [t \in Handlers |-> 0]
    /\ temp_dir = [t \in Handlers |-> ""]
    /\ files \in {{}, {File("/tmp/mineru_temp", "a.jpg", 0)}}
    /\ SSEIdle /\ PCIdle /\ HIdle
    /\ PostIdle /\ OptIdle /\ ScoreIdle /\ ServerIdle /\ ConvIdle

\* Lines 62-70: the analysis returns the images of the document.
Analyze(t) ==
    /\ par_pc[t] = "start"
    /\ \E l \in ImageLists : images_list' = [images_list EXCEPT ![t] = l]
    /\ par_pc' = [par_pc EXCEPT ![t] = "analyzed"]
    /\ UNCHANGED <<n_written, temp_dir, files>>

\* Lines 67 and 85: no inference result, "" is returned and nothing is written.
NoResults(t) ==
    /\ par_pc[t] = "start"
    /\ par_pc' = [par_pc EXCEPT ![t] = "returned"]
    /\ UNCHANGED <<images_list, n_written, temp_dir, files>>

\* Lines 73-75.
MakeDir(t) ==
    /\ par_pc[t] = "analyzed"
    /\ temp_dir' = [temp_dir EXCEPT ![t] = TempDir(t)]
    /\ par_pc' = [par_pc EXCEPT ![t] = "dir_made"]
    /\ UNCHANGED <<images_list, n_written, files>>

\* Lines 77-79: pipeline_result_to_middle_json writes the next image.
WriteImage(t) ==
    /\ par_pc[t] = "dir_made"
    /\ n_written[t] < Len(images_list[t])
    /\ files' = WriteFile(files, temp_dir[t], images_list[t][n_written[t] + 1], t)
    /\ n_written' = [n_written EXCEPT ![t] = @ + 1]
    /\ UNCHANGED <<par_pc, images_list, temp_dir>>

\* Lines 81-83: the markdown is made and returned; the files stay.
MakeMarkdown(t) ==
    /\ par_pc[t] = "dir_made"
    /\ n_written[t] = Len(images_list[t])
    /\ par_pc' = [par_pc EXCEPT ![t] = "returned"]
    /\ UNCHANGED <<images_list, n_written, temp_dir, files>>

\* Lines 54-56: an exception of the library is logged and raised again.
ParseRaises(t) ==
    /\ par_pc[t] \in {"start", "analyzed", "dir_made"}
    /\ par_pc' = [par_pc EXCEPT ![t] = "raised"]
    /\ UNCHANGED <<images_list, n_written, temp_dir, files>>

ParseNext ==
    /\ \E t \in Handlers :
           \/ Analyze(t) \/ NoResults(t) \/ MakeDir(t)
           \/ WriteImage(t) \/ MakeMarkdown(t) \/ ParseRaises(t)
    /\ UNCHANGED <<sse_vars, pc_vars, h_vars, post_vars, opt_vars, sc_vars, srv_vars,
                   conv_vars>>

SpecParse == ParseInit /\ [][ParseNext]_vars

\* ---------------------------------------------------- post-processing calls
\* Specification lists of a request that passed validation.
SpecLists ==
    {<<>>,
     <<Dict(ItemThk)>>,
     <<Dict(ItemThk), Dict(ItemHaze)>>,
     <<Dict(ItemChr), Dict(ItemThk), Dict(ItemThk2)>>}

\* A record of the model's answer.
Record(name, upper, lower) ==
    [item |-> name, type |-> Quantitative, upper |-> upper, lower |-> lower,
     unit |-> Str(<<"m", "m">>)]

WithCode(d, code) == [k \in (DOMAIN d) \cup {"code"} |-> IF k = "code" THEN code ELSE d[k]]

Codes == {None, Str(<<>>), Str(<<"P", "9">>), Num(<<"0">>)}

\* Records that differ in name and code: the name known to the mapping,
\* unknown to it or absent; the code absent, None, empty, set, or the number 0.
CodeRecords ==
    LET base == {Record(n, Str(<<"1">>), Str(<<"0">>)) : n \in {Thickness, Chroma}}
                    \cup {WithoutKey(Record(Thickness, Str(<<"1">>), Str(<<"0">>)), "item")}
    IN  base \cup {WithCode(d, c) : d \in base, c \in Codes}

Limits ==
    {Str(<<"1", "0", "0", "0", "0", "0">>),
     Str(<<"1", "0", "0", "0", "0", "1">>),
     Str(<<"9", "9", "9", "9", "9">>),
     Str(<<"1", "0", "0", "0", "0", "0", "0">>),
     Str(<<"-", "1", "0", "0", "0", "0", "0", "0">>),
     Str(<<"-", "1", "0", "0", "0", "0", "0">>),
     Str(<<"1", "0", "0", "0", "0", "0", ".", "0">>),
     Str(<<"1", "0", "0", "0", "0", "0", ".", "5">>),
     Str(<<"1", "0", "1", "5", "0", "0">>),
     Str(<<"9", "9", "9", "9", "9", "9">>),
     Str(<<"0", ".", "5">>),
     Str(<<>>),
     Str(<<"inf">>),
     Str(<<"a", "b", "c">>),
     None,
     Num(<<"1", "0", "0", "0", "0", "0", "0">>),
     Num(<<"5">>)}

\* Records that differ in one limit.
LimitRecords ==
    {Record(Thickness, v, Str(<<"0">>)) : v \in Limits}
        \cup {Record(Thickness, Str(<<"1">>), v) : v \in Limits}

ListsOf(records) == UNION {[1..n -> {Dict(d) : d \in records}] : n \in 0..MaxItems}

\* Values of process_content that make a post-processing call raise.
OddResults == {None, List(<<Num(<<"1">>)>>), List(<<Dict(DictLiteral("{nolim}"))>>)}

PostInit ==
    /\ post_pc = "start"
    /\ \/ /\ spec_data \in SpecLists
          /\ result_data \in {List(l) : l \in ListsOf(CodeRecords)} \cup OddResults
       \/ /\ spec_data = <<Dict(ItemThk)>>
          /\ result_data \in {List(l) : l \in ListsOf(LimitRecords)}
    /\ mapping_dict = <<>>
    /\ filled_check_pro = None
    /\ converted_list = None
    /\ post_exc = NoExc
    /\ OptIdle
    /\ ScoreIdle
    /\ AuxIdle
    /\ SSEIdle
    /\ PCIdle
    /\ HIdle

\* map_pro = create_inspection_mapping(spec_data)
CreateMapping ==
    /\ post_pc = "start"
    /\ mapping_dict' = CreateInspectionMapping(spec_data)
    /\ post_pc' = "mapped"
    /\ UNCHANGED <<spec_data, result_data, filled_check_pro, converted_list, post_exc>>

\* filled_check_pro = complete_project_codes(filled_check_pro, map_pro)
CompleteCodes ==
    /\ post_pc = "mapped"
    /\ LET r == CompleteProjectCodes(result_data, mapping_dict) IN
       IF r.ok
       THEN /\ filled_check_pro' = r.val
            /\ post_pc' = "filled"
            /\ UNCHANGED post_exc
       ELSE /\ post_exc' = r.exc
            /\ post_pc' = "raised"
            /\ UNCHANGED filled_check_pro
    /\ UNCHANGED <<spec_data, result_data, mapping_dict, converted_list>>

\* filled_check_pro = convert_large_numbers_to_scientific(filled_check_pro)
ConvertNumbers ==
    /\ post_pc = "filled"
    /\ LET r == ConvertLargeNumbersToScientific(filled_check_pro) IN
       IF r.ok
       THEN /\ converted_list' = r.val
            /\ post_pc' = "done"
            /\ UNCHANGED post_exc
       ELSE /\ post_exc' = r.exc
            /\ post_pc' = "raised"
            /\ UNCHANGED converted_list
    /\ filled_check_pro' = DataListAfter(filled_check_pro)
    /\ UNCHANGED <<spec_data, result_data, mapping_dict>>

PostNext ==
    /\ CreateMapping \/ CompleteCodes \/ ConvertNumbers
    /\ UNCHANGED <<sse_vars, pc_vars, h_vars, opt_vars, sc_vars, aux_vars>>

SpecPost == PostInit /\ [][PostNext]_vars

\* ------------------------------------------- optimize_markdown_content calls
MaxMd == 3

Image == <<"!", "[", "x", "]", "(", "x", ")">>

MdTokens ==
    {Image, <<"!">>, <<"[", "x", "]", "(", "x", ")">>, <<"x">>, <<" ">>, <<"\t">>, <<"\n">>}
        \cup {<<c>> : c \in TableChars}

MdTexts == UNION {{Flatten(ts) : ts \in [1..n -> MdTokens]} : n \in 0..MaxMd}

OptInit ==
    /\ opt_pc = "start"
    /\ opt_in \in MdTexts
    /\ compacted = <<>>
    /\ compacted_again = <<>>
    /\ PostIdle
    /\ ScoreIdle
    /\ AuxIdle
    /\ SSEIdle
    /\ PCIdle
    /\ HIdle

\* optimize_markdown_content(md_content)
Optimize ==
    /\ opt_pc = "start"
    /\ compacted' = OptimizeMarkdownContent(opt_in)
    /\ opt_pc' = "once"
    /\ UNCHANGED <<opt_in, compacted_again>>

\* The function applied to its own output.
OptimizeAgain ==
    /\ opt_pc = "once"
    /\ compacted_again' = OptimizeMarkdownContent(compacted)
    /\ opt_pc' = "twice"
    /\ UNCHANGED <<opt_in, compacted>>

OptNext ==
    /\ Optimize \/ OptimizeAgain
    /\ UNCHANGED <<sse_vars, pc_vars, h_vars, post_vars, sc_vars, aux_vars>>

SpecOpt == OptInit /\ [][OptNext]_vars

\* ------------------------------------------------------ consistency scoring
(* Column names in ASCII: upper_new = 上限新, lower_new = 下限新; a missing   *)
(* cell (NaN) is None.  wu qiong da = 无穷大.                                 *)
MaxSheets == 2

Unbounded == Str(<<"wu", "qiong", "da">>)
Infinity  == Str(<<"inf">>)

\* pd.isna(val)
IsNa(v) == v.t = "none"

Abs(x) == IF x < 0 THEN 0 - x ELSE x

\* float(val) in tenths, for a number written with at most one decimal.
Tenths(f) ==
    LET m == 10 * DigitsVal(f.int) + (IF f.frac = <<>> THEN 0 ELSE DigitVal(f.frac[1]))
    IN  IF f.neg THEN 0 - m ELSE m

\* np.isclose(a, b): abs(a - b) <= atol + rtol * abs(b), atol = 1e-08 and
\* rtol = 1e-05, on values in tenths.
IsClose(a, b) == Abs(a - b) <= (1 + 100 * Abs(b)) \div 10000000

\* values_equal(val1, val2)
ValuesEqual_Strings(val1, val2) ==
    LET v1 == IF val1 = Unbounded THEN Infinity ELSE val1
        v2 == IF val2 = Unbounded THEN Infinity ELSE val2
    IN  IF IsNa(v1) /\ IsNa(v2) THEN TRUE
        ELSE IF IsNa(v1) \/ IsNa(v2) THEN FALSE
        ELSE v1.s = v2.s

ValuesEqual(val1, val2) ==
    LET v1 == IF val1 = Unbounded THEN Infinity ELSE val1
        v2 == IF val2 = Unbounded THEN Infinity ELSE val2
    IN  IF IsNa(v1) /\ IsNa(v2) THEN TRUE
        ELSE IF IsNa(v1) \/ IsNa(v2) THEN FALSE
        ELSE IF ParseFloat(v1.s).ok /\ ParseFloat(v2.s).ok
        THEN IsClose(Tenths(ParseFloat(v1.s)), Tenths(ParseFloat(v2.s)))
        ELSE v1.s = v2.s                         \* except (ValueError, TypeError)

\* A row of a sheet and a sheet: the columns it has and its rows.
Row(type, upper_new, upper, lower_new, lower) ==
    [type |-> type, upper_new |-> upper_new, upper |-> upper,
     lower_new |-> lower_new, lower |-> lower]

Sheet(columns, rows) == [columns |-> columns, rows |-> rows]

required_columns == {"item", "upper_new", "lower_new", "upper", "lower"}

AllColumns == required_columns \cup {"type"}

Rate(num, den) == [num |-> num, den |-> den]

Results(total, same, rate, uppers, lowers) ==
    [raised |-> FALSE, total_cells |-> total, same_count |-> same,
     no_same_count |-> total - same, rate |-> rate, uppers |-> uppers, lowers |-> lowers]

ZeroResults == Results(0, 0, Rate(0, 1), <<>>, <<>>)

\* df['类型'] on a sheet without that column raises KeyError.
RaisedResults ==
    [raised |-> TRUE, total_cells |-> 0, same_count |-> 0, no_same_count |-> 0,
     rate |-> Rate(0, 1), uppers |-> <<>>, lowers |-> <<>>]

IsQuantitative(row) == row.type = Quantitative

\* comparison_series.sum()
RECURSIVE SumTrue(_)
SumTrue(series) ==
    IF series = <<>> THEN 0
    ELSE (IF Head(series) THEN 1 ELSE 0) + SumTrue(Tail(series))

\* calculate_consistency_for_sheet(df)
CalculateConsistencyForSheet_AllRows(df) ==
    IF required_columns \ df.columns # {} THEN ZeroResults
    ELSE IF "type" \notin df.columns THEN RaisedResults
    ELSE LET rows   == df.rows
             total  == Len(rows) * 2
             uppers == [k \in 1..Len(rows) |-> ValuesEqual(rows[k].upper_new, rows[k].upper)]
             lowers == [k \in 1..Len(rows) |-> ValuesEqual(rows[k].lower_new, rows[k].lower)]
             same   == SumTrue(uppers) + SumTrue(lowers)
         IN  IF total = 0 THEN ZeroResults
             ELSE Results(total, same, Rate(same * 100, total), uppers, lowers)

CalculateConsistencyForSheet(df) ==
    IF required_columns \ df.columns # {} THEN ZeroResults
    ELSE IF "type" \notin df.columns THEN RaisedResults
    ELSE LET rows   == SelectSeq(df.rows, IsQuantitative)
             total  == Len(rows) * 2
             uppers == [k \in 1..Len(rows) |-> ValuesEqual(rows[k].upper_new, rows[k].upper)]
             lowers == [k \in 1..Len(rows) |-> ValuesEqual(rows[k].lower_new, rows[k].lower)]
             same   == SumTrue(uppers) + SumTrue(lowers)
         IN  IF total = 0 THEN ZeroResults
             ELSE Results(total, same, Rate(same * 100, total), uppers, lowers)

\* Cell values: numbers as text and as numbers, a missing cell, the
\* infinity sign and its spelling, a text that is no number.
CellValues ==
    {Str(<<"1">>), Str(<<"1", ".", "0">>), Str(<<"1", ".", "5">>),
     Str(<<"1", "0", "0", "0", "0", "0">>), Str(<<"1", "0", "0", "0", "0", "1">>),
     Num(<<"1", ".", "0">>), None, Infinity, Unbounded, Str(<<"a">>)}

One == Str(<<"1">>)

QualitativeRow == Row(Qualitative, Str(<<"5">>), Str(<<"0">>), Str(<<"0">>), Str(<<"0">>))

\* A quantitative row for every pair of upper limits, with equal lower limits.
BigRows == {Row(Quantitative, a, b, One, Str(<<"1", ".", "0">>)) : a, b \in CellValues}

SheetOne   == Sheet(AllColumns, <<Row(Quantitative, One, Str(<<"1", ".", "0">>),
                                      Str(<<"1", ".", "5">>), One)>>)
SheetMixed == Sheet(AllColumns, <<Row(Quantitative, Infinity, Unbounded, None, None),
                                  QualitativeRow,
                                  Row(Quantitative, Str(<<"1", ".", "5">>), One, None, One)>>)

SmallSheets ==
    {Sheet(AllColumns, <<>>),
     SheetOne,
     SheetMixed,
     Sheet(AllColumns, <<QualitativeRow>>),
     Sheet(AllColumns \ {"upper"}, SheetOne.rows),
     Sheet(required_columns, SheetOne.rows)}

Workbooks ==
    {<<Sheet(AllColumns, <<r, QualitativeRow>>)>> : r \in BigRows}
        \cup UNION {[1..n -> SmallSheets] : n \in 0..MaxSheets}

ScoreInit ==
    /\ sc_pc = "start"
    /\ sheets \in Workbooks
    /\ sheet_no = 0
    /\ upper_comparison_series = <<>>
    /\ lower_comparison_series = <<>>
    /\ printed = <<>>
    /\ overall_total_cells = 0
    /\ overall_same_count = 0
    /\ overall_no_same_count = 0
    /\ overall_consistency_rate = Rate(0, 1)
    /\ PostIdle
    /\ OptIdle
    /\ AuxIdle
    /\ SSEIdle
    /\ PCIdle
    /\ HIdle

\* Lines 131-143: the workbook is opened; without sheets the function returns.
OpenWorkbook ==
    /\ sc_pc = "start"
    /\ sc_pc' = IF sheets = <<>> THEN "returned" ELSE "loop"
    /\ UNCHANGED <<sheets, sheet_no, upper_comparison_series, lower_comparison_series,
                   printed, overall_total_cells, overall_same_count,
                   overall_no_same_count, overall_consistency_rate>>

\* Lines 118-120 and 185-186: the file does not exist or cannot be read.
OpenFails ==
    /\ sc_pc = "start"
    /\ sc_pc' = "returned"
    /\ UNCHANGED <<sheets, sheet_no, upper_comparison_series, lower_comparison_series,
                   printed, overall_total_cells, overall_same_count,
                   overall_no_same_count, overall_consistency_rate>>

\* Lines 146-171: one iteration of the loop over the sheets.
ScoreSheet ==
    /\ sc_pc = "loop"
    /\ sheet_no < Len(sheets)
    /\ LET results == CalculateConsistencyForSheet(sheets[sheet_no + 1]) IN
       /\ printed' = Append(printed, results)
       /\ IF results.raised
          THEN UNCHANGED <<upper_comparison_series, lower_comparison_series,
                           overall_total_cells, overall_same_count, overall_no_same_count>>
          ELSE /\ upper_comparison_series' = results.uppers
               /\ lower_comparison_series' = results.lowers
               /\ overall_total_cells' = overall_total_cells + results.total_cells
               /\ overall_same_count' = overall_same_count + results.same_count
               /\ overall_no_same_count' = overall_no_same_count + results.no_same_count
    /\ sheet_no' = sheet_no + 1
    /\ UNCHANGED <<sc_pc, sheets, overall_consistency_rate>>

\* Lines 173-183: the overall statistics.
Report ==
    /\ sc_pc = "loop"
    /\ sheet_no = Len(sheets)
    /\ overall_consistency_rate' =
           IF overall_total_cells > 0
           THEN Rate(overall_same_count * 100, overall_total_cells)
           ELSE overall_consistency_rate
    /\ sc_pc' = "reported"
    /\ UNCHANGED <<sheets, sheet_no, upper_comparison_series, lower_comparison_series,
                   printed, overall_total_cells, overall_same_count, overall_no_same_count>>

ScoreNext ==
    /\ OpenWorkbook \/ OpenFails \/ ScoreSheet \/ Report
    /\ UNCHANGED <<sse_vars, pc_vars, h_vars, post_vars, opt_vars, aux_vars>>

SpecScore == ScoreInit /\ [][ScoreNext]_vars

\* ------------------------------------------------- excel_to_json (conv_json.py)
MaxRows == 2

ConvColumns == {"code", "item", "type", "unit"}

\* A row of a sheet: one cell per column, None for an empty cell (NaN).
ConvRow(code, item, type, unit) == [code |-> code, item |-> item, type |-> type, unit |-> unit]

ConvSheet(columns, rows) == [columns |-> columns, rows |-> rows]

ConvRows ==
    {ConvRow(Str(<<"P", "1">>), Thickness, Quantitative, Str(<<"m", "m">>)),
     ConvRow(Str(<<"P", "2">>), Haze, Qualitative, None),
     ConvRow(None, Thickness, Quantitative, Str(<<"m", "m">>)),
     ConvRow(Str(<<"P", "3">>), None, Qualitative, Str(<<"m", "m">>)),
     ConvRow(Str(<<" ", "P", "4", " ">>), Chroma, None, Str(<<" ", "m", "m">>)),
     ConvRow(Num(<<"5">>), Haze, Str(<<" ", "ding", "xing", "\n">>), Str(<<"%">>)),
     ConvRow(Str(<<" ">>), Thickness, Str(<<"x">>), Str(<<>>)),
     ConvRow(None, None, None, None)}

\* The header of a sheet: all four columns, or without some of them.
ConvHeaders == {ConvColumns, {"code", "item"}, {"item", "type", "unit"}}

FirstSheets ==
    {ConvSheet(h, rows) : h \in ConvHeaders,
                          rows \in UNION {[1..n -> ConvRows] : n \in 0..MaxRows}}

\* The sheets after the first one.
OtherSheets ==
    {<<>>,
     <<ConvSheet(ConvColumns, <<>>)>>,
     <<ConvSheet(ConvColumns, <<ConvRow(Str(<<"P", "7">>), Thickness, Quantitative,
                                        Str(<<"m", "m">>))>>)>>,
     <<ConvSheet(ConvColumns, <<ConvRow(None, Haze, Qualitative, None)>>)>>}

ConvWorkbooks == {<<s>> \o others : s \in FirstSheets, others \in OtherSheets}

\* row.get(column): None when the sheet has no such column.
RowGet(sheet, row, column) == IF column \in sheet.columns THEN row[column] ELSE None

\* str(value).strip()
StrStrip(value) == Str(Strip(value.s))

\* df.dropna(how='all'): the rows that hold a value in some column.
DropNa(sheet) ==
    LET Kept(row) == \E c \in sheet.columns : ~IsNa(row[c])
    IN  ConvSheet(sheet.columns, SelectSeq(sheet.rows, Kept))

\* pd.read_excel(excel_file): sheet_name is left at 0, the first sheet.
ReadExcel(wb) == wb[1]

\* Line 27 with the name cell left unread.
Skipped_CodeOnly(sheet, row) == IsNa(RowGet(sheet, row, "code"))

\* Line 27.
Skipped(sheet, row) == IsNa(RowGet(sheet, row, "code")) \/ IsNa(RowGet(sheet, row, "item"))

\* Lines 31-48: the record of a row that is not skipped.
ConvItem(sheet, row) ==
    LET data_type == IF ~IsNa(RowGet(sheet, row, "type")) THEN StrStrip(row["type"])
                     ELSE Quantitative
        unit      == IF ~IsNa(RowGet(sheet, row, "unit")) THEN StrStrip(row["unit"])
                     ELSE Str(<<>>)
        limit     == IF data_type = Qualitative THEN Str(<<"0">>) ELSE Str(<<>>)
    IN  Item(StrStrip(row["code"]), StrStrip(row["item"]), data_type, limit, limit, unit)

ConvInit ==
    /\ conv_pc = "start"
    /\ excel_file \in ConvWorkbooks
    /\ conv_df = <<>>
    /\ row_no = 0
    /\ json_data = <<>>
    /\ output_json = None
    /\ ServerIdle
    /\ ParseIdle
    /\ PostIdle
    /\ OptIdle
    /\ ScoreIdle
    /\ SSEIdle
    /\ PCIdle
    /\ HIdle

\* Lines 19-24.
ReadWorkbook ==
    /\ conv_pc = "start"
    /\ conv_df' = DropNa(ReadExcel(excel_file))
    /\ json_data' = <<>>
    /\ row_no' = 0
    /\ conv_pc' = "rows"
    /\ UNCHANGED <<excel_file, output_json>>

\* pd.read_excel raises (a file that is no workbook): lines 58-59 print the
\* error and no file is written.
ReadWorkbookFails ==
    /\ conv_pc = "start"
    /\ conv_pc' = "failed"
    /\ UNCHANGED <<excel_file, conv_df, row_no, json_data, output_json>>

\* One turn of the loop of line 25.
VisitRow ==
    /\ conv_pc = "rows"
    /\ row_no < Len(conv_df.rows)
    /\ LET row == conv_df.rows[row_no + 1] IN
       json_data' = IF Skipped(conv_df, row) THEN json_data
                    ELSE Append(json_data, ConvItem(conv_df, row))
    /\ row_no' = row_no + 1
    /\ UNCHANGED <<conv_pc, excel_file, conv_df, output_json>>

\* Lines 52-54.
SaveJson ==
    /\ conv_pc = "rows"
    /\ row_no = Len(conv_df.rows)
    /\ output_json' = List(json_data)
    /\ conv_pc' = "saved"
    /\ UNCHANGED <<excel_file, conv_df, row_no, json_data>>

ConvNext ==
    /\ ReadWorkbook \/ ReadWorkbookFails \/ VisitRow \/ SaveJson
    /\ UNCHANGED <<sse_vars, pc_vars, h_vars, post_vars, opt_vars, sc_vars, srv_vars,
                   par_vars>>

SpecConv == ConvInit /\ [][ConvNext]_vars

\* ================================================================ claims
\* ---- helpers of the streaming claims (C5 - C8) ----
Returned200 == sse_pc = "returned" /\ status_code = 200

\* A data: frame that carries a delta content string.
HasContentString(line) ==
    /\ line.kind = "json" /\ line.top = "dict" /\ line.choices = "list"
    /\ line.first = "dict" /\ line.delta = "dict" /\ line.content = "str"

DeltaText(line) == IF HasContentString(line) THEN line.text ELSE <<>>

\* A data: frame whose JSON payload makes the loop body raise: a truthy
\* choices that is no list of objects, a delta that is no object, or a
\* truthy content that is no string.
IllShaped(line) ==
    /\ line.kind = "json" /\ line.top = "dict"
    /\ line.choices \in {"list", "dict", "num", "str", "true"}
    /\ \/ line.choices # "list"
       \/ line.first # "dict"
       \/ line.delta \notin {"absent", "dict"}
       \/ /\ line.delta = "dict"
          /\ line.content \in {"list", "dict", "num", "true"}

\* Number of lines before the first [DONE] sentinel (all of them if none).
BeforeDone(s) ==
    IF \E i \in 1..Len(s) : s[i].kind = "done"
    THEN (CHOOSE i \in 1..Len(s) :
             s[i].kind = "done" /\ \A j \in 1..(i - 1) : s[j].kind # "done") - 1
    ELSE Len(s)

RECURSIVE ConcatTexts(_, _)
ConcatTexts(s, n) == IF n = 0 THEN <<>> ELSE ConcatTexts(s, n - 1) \o DeltaText(s[n])

\* Concatenation, in arrival order, of the delta content strings of the
\* frames before the first sentinel.
Expected(s) == ConcatTexts(s, BeforeDone(s))

\* The lines that arrived on the connection: all of them, unless the
\* connection broke after pos lines.
Arrived == IF raised = "RequestException" THEN SubSeq(stream, 1, pos) ELSE stream

RemoveAt(s, i) == SubSeq(s, 1, i - 1) \o SubSeq(s, i + 1, Len(s))

\* C5 (as claimed): for a 200 response the call returns exactly the
\* concatenation, in arrival order, of the non-empty delta content strings of
\* the data: frames that arrived before the first [DONE] sentinel.
C5_Original == Returned200 => sse_ret = Expected(Arrived)

\* C5 (amended): for a 200 response the call returns the concatenation, in
\* arrival order, of the delta content strings of the data: frames before
\* the first [DONE] sentinel (all frames if there is none), unless reading
\* raised - the connection broke, or a frame before the sentinel has a JSON
\* payload of a shape the loop body cannot handle - in which case it returns
\* the empty string; the accumulator only ever grows by appending.
C5_Returned ==
    Returned200 =>
        IF raised = "RequestException"
           \/ \E i \in 1..BeforeDone(stream) : IllShaped(stream[i])
        THEN sse_ret = <<>>
        ELSE sse_ret = Expected(stream)

C5_Amended == [](C5_Returned) /\ [][IsPrefix(full_content, full_content')]_vars

\* Two content frames were accumulated in order, the sentinel stopped the
\* loop and a content frame after the sentinel was left out.
C5_Witness ==
    /\ Returned200 /\ raised = "none"
    /\ stream = <<LnA, LnDone, LnB>>
    /\ sse_ret = <<"a">>

\* C6: a data: frame whose payload is not valid JSON is skipped: it leaves
\* the accumulator unchanged, the loop goes on with the next line, the text
\* returned equals the text returned for the stream without that frame, and
\* no request is issued again.
C6_Final ==
    (Returned200 /\ raised # "RequestException") =>
        \A i \in 1..Len(stream) :
            stream[i].kind = "badjson" => sse_ret = RunStream(RemoveAt(stream, i))

C6_Skip ==
    (sse_pc = "reading" /\ pos' = pos + 1 /\ stream[pos'].kind = "badjson") =>
        /\ full_content' = full_content
        /\ sse_pc' = "reading"
        /\ n_post' = n_post

C6_Theorem == [](C6_Final) /\ [](n_post <= 1) /\ [][C6_Skip]_vars

\* An invalid frame between two content frames was skipped.
C6_Witness ==
    /\ Returned200 /\ raised = "none"
    /\ stream = <<LnA, LnBadJson, LnB>>
    /\ sse_ret = <<"a", "b">>

\* C7: when the endpoint answers with a status other than 200 the call reads
\* no frame, returns the empty string, and has issued exactly one request.
C7_Theorem ==
    /\ (sse_pc = "reading" /\ status_code # 200) => (pos = 0 /\ n_post = 1)
    /\ (sse_pc = "returned" /\ status_code # 200) =>
           (pos = 0 /\ full_content = <<>> /\ sse_ret = <<>> /\ n_post = 1)

\* A 500 answer whose body would have carried content was returned empty.
C7_Witness ==
    /\ sse_pc = "returned" /\ status_code = 500 /\ raised = "none"
    /\ stream = <<LnA, LnB>>
    /\ sse_ret = <<>>

\* C8 (as claimed): a non-success status is the sole failure path: for every
\* 200 response whose connection does not break, whatever the frames, the
\* call returns the text accumulated so far.
C8_Original == (Returned200 /\ raised # "RequestException") => sse_ret = full_content

\* C8 (amended): the call has two failure paths, a non-success status and
\* any exception raised while the stream is read (a broken connection, or a
\* frame whose choices, delta or content has a shape the loop body cannot
\* handle); both return the empty string and the second discards the text
\* accumulated so far.  Otherwise the call returns the accumulated text.
C8_Theorem ==
    sse_pc = "returned" =>
        /\ (status_code = 200 /\ raised = "none") => sse_ret = full_content
        /\ (status_code # 200 \/ raised # "none") => sse_ret = <<>>
        /\ (raised = "Exception") <=> (pos >= 1 /\ IllShaped(stream[pos]))
        /\ \A i \in 1..(pos - 1) : ~IllShaped(stream[i])

\* Accumulated text was discarded by a frame whose delta is null.
C8_Witness ==
    /\ Returned200 /\ raised = "Exception"
    /\ stream = <<LnA, LnNullDelta>>
    /\ full_content = <<"a">> /\ sse_ret = <<>>

\* ---- helpers of the process_content claims (C9, C10) ----
PCDone == pc_pc = "done"

IsOpenAt(s, i)  == StartsWithAt(s, i, OPEN)
IsCloseAt(s, i) == StartsWithAt(s, i, CLOSE)

ContainsTag(s) == \E i \in 1..Len(s) : IsOpenAt(s, i) \/ IsCloseAt(s, i)

\* Position p of s is a character of a tag of s.
InTag(s, p) ==
    \E i \in 1..p : \/ IsOpenAt(s, i) /\ p < i + Len(OPEN)
                    \/ IsCloseAt(s, i) /\ p < i + Len(CLOSE)

OpensBetween(s, i, j)  == Cardinality({k \in (i + 1)..(j - 1) : IsOpenAt(s, k)})
ClosesBetween(s, i, j) == Cardinality({k \in (i + 1)..(j - 1) : IsCloseAt(s, k)})

\* The closing tag at j matches the opening tag at i: the tags between them
\* pair up among themselves.
Matching(s, i, j) ==
    /\ IsOpenAt(s, i) /\ IsCloseAt(s, j) /\ i < j
    /\ OpensBetween(s, i, j) = ClosesBetween(s, i, j)
    /\ \A k \in (i + 1)..(j - 1) :
           IsCloseAt(s, k) => OpensBetween(s, i, k) > ClosesBetween(s, i, k)

\* Position p lies between an opening tag and its matching closing tag.
InsideSegment(s, p) ==
    \E i \in 1..p : \E j \in p..Len(s) :
        Matching(s, i, j) /\ i + Len(OPEN) <= p /\ p < j

\* Position p lies between an opening tag and the first closing tag after it.
BeforeNextClose(s, p) ==
    \E i \in 1..p :
        /\ IsOpenAt(s, i)
        /\ i + Len(OPEN) <= p
        /\ FindFrom(s, i + Len(OPEN), CLOSE) # 0
        /\ p < FindFrom(s, i + Len(OPEN), CLOSE)

\* No opening tag lies between an opening tag and the first closing tag
\* after it: the pairs of s are not nested.
FlatPairs(s) ==
    \A i \in 1..Len(s) : \A k \in (i + 1)..Len(s) :
        (IsOpenAt(s, i) /\ IsOpenAt(s, k)) =>
            (FindFrom(s, i + Len(OPEN), CLOSE) = 0 \/ FindFrom(s, i + Len(OPEN), CLOSE) < k)

Kept == {cleaned_idx[k] : k \in 1..Len(cleaned_idx)}

\* Every character of tag text in s belongs to a tag of s.
WholeTags(s) ==
    \A p \in 1..Len(s) : s[p] \in {"<", "/", "T", ">"} => InTag(s, p)

\* C9 (as claimed): the cleaned text contains no <think> or </think> tag
\* and no character that lay between an opening tag and its matching closing
\* tag in the raw text, for every arrangement of tags (here: of whole tags).
C9_Original ==
    (PCDone /\ WholeTags(response_content)) =>
        /\ ~ContainsTag(cleaned_content)
        /\ \A p \in Kept : ~InsideSegment(response_content, p)

\* C9 (amended): process_content removes every stretch from an opening
\* <think> tag to the first closing </think> tag after it, then every tag
\* left: no character of a tag of the raw text and no character that lay
\* between an opening tag and the first closing tag after it is in the
\* cleaned text.  When the pairs are not nested this is every character of
\* every reasoning segment, so bracketed text of a segment is not selected.
C9_Theorem ==
    PCDone =>
        /\ \A p \in Kept : /\ ~InTag(response_content, p)
                           /\ ~BeforeNextClose(response_content, p)
        /\ FlatPairs(response_content) =>
               \A p \in Kept : ~InsideSegment(response_content, p)
        /\ \A k \in 1..Len(cleaned_content) :
               cleaned_content[k] = response_content[cleaned_idx[k]]

\* A list inside a reasoning segment was removed and the list after it was
\* selected.
C9_Witness ==
    /\ PCDone
    /\ response_content = OPEN \o <<"[", "]">> \o CLOSE \o <<"[", "]">>
    /\ cleaned_idx = <<10, 11>>
    /\ match_span = <<1, 2>>

BracketCount(s, i, j) ==
    Cardinality({k \in i..j : s[k] = "["}) - Cardinality({k \in i..j : s[k] = "]"})

\* s[i..j] runs from an opening bracket to the closing bracket that
\* balances it.
Balanced(s, i, j) ==
    /\ i < j /\ s[i] = "[" /\ s[j] = "]"
    /\ BracketCount(s, i, j) = 0
    /\ \A k \in i..(j - 1) : BracketCount(s, i, k) > 0

RECURSIVE WithoutNewlines(_)
WithoutNewlines(s) ==
    IF s = <<>> THEN <<>>
    ELSE IF Head(s) = "\n" THEN WithoutNewlines(Tail(s))
    ELSE <<Head(s)>> \o WithoutNewlines(Tail(s))

\* C10: the region process_content isolates starts with '[' and ends with
\* the ']' that balances it, it is the leftmost balanced region of the
\* cleaned text and lies in no other balanced region (there is no region
\* only if the cleaned text has no balanced region); the text handed to the
\* parser is that region with every newline removed.
C10_Theorem ==
    PCDone =>
        LET a == match_span[1]
            b == match_span[2]
            n == Len(cleaned_content)
        IN  IF a = 0
            THEN /\ \A i \in 1..n : \A j \in 1..n : ~Balanced(cleaned_content, i, j)
                 /\ clean_text = <<>>
            ELSE /\ Balanced(cleaned_content, a, b)
                 /\ \A i \in 1..n : \A j \in 1..n :
                        Balanced(cleaned_content, i, j) =>
                            /\ a <= i
                            /\ (i <= a /\ b <= j) => (i = a /\ j = b)
                 /\ clean_text = WithoutNewlines(SubSeq(cleaned_content, a, b))
                 /\ \A k \in 1..Len(clean_text) : clean_text[k] # "\n"

\* A region with a nested pair and a newline was isolated whole and the
\* newline removed.
C10_Witness ==
    /\ PCDone
    /\ response_content = <<"[", "[", "\n", "]", "]">>
    /\ match_span = <<1, 5>>
    /\ clean_text = <<"[", "[", "]", "]">>

\* ------------------------------------------------------------------- C1..C4
Responded == pc = "responded"

C1_Stages == <<"parse_pdf", "compact", "prompt", "stream", "extract", "backfill", "normalize">>

\* C1: a 200 response has success = TRUE and a dataList equal to
\* convert_large_numbers_to_scientific(complete_project_codes(L, mapping)),
\* L the list process_content parses from the text streamed back for the
\* prompt built from the compacted markdown and the specification list,
\* mapping built from the original request list; the stages run in the order
\* parse PDF, compact, prompt, stream, extract, back-fill, normalize.
C1_Theorem ==
    /\ IsPrefix(trace, C1_Stages)
    /\ http_response.status = 200 =>
          LET L       == ProcessContent(response_content)
              mapping == CreateInspectionMapping(request.value.l)
              filled  == CompleteProjectCodes(L, mapping)
          IN  /\ http_response.body.success = TRUE
              /\ filled.ok
              /\ http_response.body.dataList
                     = ConvertLargeNumbersToScientific(filled.val).val
              /\ payload.content
                     = BuildPrompt(OptimizeMarkdownContent(md_content),
                                   RemoveKeyFromListDicts(request.value.l, "code"),
                                   fix_program)
              /\ payload.stream = TRUE
              /\ trace = C1_Stages

\* C1 witness: a success response whose first item got its code from the
\* request's mapping and whose second item got its upper limit rewritten.
C1_Witness ==
    /\ http_response.status = 200
    /\ http_response.body.dataList.t = "list"
    /\ Len(http_response.body.dataList.l) = 2
    /\ "code" \notin DOMAIN ProcessContent(response_content).l[1].d
    /\ "code" \in DOMAIN http_response.body.dataList.l[1].d
    /\ http_response.body.dataList.l[1].d["code"] = Str(<<"P", "1">>)
    /\ http_response.body.dataList.l[2].d["upper"]
           = Str(<<"1", ".", "0", "0", "E", "+", "0", "6">>)

C2_Keys == {"code", "item", "type", "upper", "lower", "unit"}

FailsValidation(req) ==
    \/ ~req.has_file
    \/ req.form = "absent"
    \/ req.form = "empty"
    \/ req.form = "badjson"
    \/ req.form = "json" /\ req.value.t # "list"
    \/ /\ req.form = "json"
       /\ req.value.t = "list"
       /\ \E i \in 1..Len(req.value.l) :
             \/ req.value.l[i].t # "dict"
             \/ \E k \in C2_Keys : k \notin DOMAIN req.value.l[i].d

\* C2: every request that fails validation (no file part, a missing or empty
\* dataList, a dataList that is no valid JSON, no list, holds an element that
\* is no dict or one lacking any of the six required keys) is answered with
\* HTTP 400 and a body carrying an error message.
C2_Theorem ==
    (FailsValidation(request) /\ pc # "received") =>
        /\ Responded
        /\ http_response.status = 400
        /\ DOMAIN http_response.body = {"error"}
        /\ http_response.body.error.msg # ""

\* C2 witness: the second element of the list lacks the unit key only.
C2_Witness ==
    /\ Responded
    /\ request.has_file
    /\ request.form = "json"
    /\ request.value.t = "list"
    /\ Len(request.value.l) = 2
    /\ request.value.l[1] = Dict(ItemThk)
    /\ request.value.l[2] = Dict(WithoutKey(ItemThk, "unit"))
    /\ http_response.status = 400
    /\ http_response.body.error.index = 2
    /\ http_response.body.error.fields = {"unit"}

C3_Caught ==
    (Responded /\ exc.type # "none") =>
        /\ http_response.status = 500
        /\ http_response.body.success = FALSE
        /\ http_response.body.error.msg = exc.msg

C3_Step ==
    pc = "raised" =>
        /\ pc' = "responded"
        /\ http_response'.status = 500
        /\ http_response'.body.error.msg = exc.msg

Extracted == pc_pc = "done" /\ Responded

\* C4 as stated: a response that process_content cannot parse ends in a
\* success response whose dataList is the empty list.
C4_Original ==
    (Extracted /\ data_list = None) =>
        /\ http_response.status = 200
        /\ http_response.body.dataList = List(<<>>)

\* C4: when process_content returns None (no parsable bracketed list, or an
\* empty text from the inference call), complete_project_codes raises
\* TypeError on it and the request is answered with HTTP 500 and that
\* exception's string; a success response with an empty dataList arises only
\* from a response that holds a parsable empty list.
C4_Theorem ==
    /\ (Extracted /\ data_list = None) =>
          /\ http_response.status = 500
          /\ http_response.body.success = FALSE
          /\ http_response.body.error.msg = "'NoneType' object is not iterable"
          /\ exc.type = "TypeError"
    /\ (http_response.status = 200 /\ http_response.body.dataList = List(<<>>)) =>
          data_list = List(<<>>)

\* C4 witness: the inference call returned the empty text.
C4_Witness ==
    /\ Extracted
    /\ response_content = <<>>
    /\ data_list = None
    /\ http_response.status = 500
    /\ trace = <<"parse_pdf", "compact", "prompt", "stream", "extract", "backfill">>

\* ------------------------------------------------------------------ C11..C20
HasRegion(s) == \E i \in 1..Len(s) : \E j \in 1..Len(s) : Balanced(s, i, j)

C11_Result ==
    PCDone =>
        IF ~HasRegion(cleaned_content) \/ ~LiteralEval(clean_text).ok
        THEN data_list = None
        ELSE data_list = LiteralEval(clean_text).val /\ data_list.t = "list"

\* C11: process_content never raises: it always runs to its return; when
\* the cleaned text has no balanced bracketed region, or the region does not
\* parse as a literal, it returns None, and otherwise the parsed list.
C11_Theorem == [](C11_Result) /\ [][pc_pc = "start" => pc_pc' = "done"]_vars

\* C11 witness: a balanced region that is no literal.
C11_Witness ==
    /\ PCDone
    /\ response_content = <<"[", ",", "]">>
    /\ match_span = <<1, 3>>
    /\ data_list = None

\* ---- C12 ----
\* The specification items that give name a code, and the code the mapping
\* holds for it: the one of the last such item.
C12_Givers(name) ==
    {j \in 1..Len(spec_data) :
        /\ spec_data[j].d["item"] = name
        /\ spec_data[j].d["code"] \notin {None, Str(<<>>)}}

C12_InMapping(name) == C12_Givers(name) # {}

C12_CodeFor(name) ==
    spec_data[CHOOSE j \in C12_Givers(name) : \A k \in C12_Givers(name) : k <= j].d["code"]

C12_NoCode(r) == "code" \notin DOMAIN r \/ r["code"] = None \/ r["code"] = Str(<<>>)

C12_HasCode(r) == "code" \in DOMAIN r /\ r["code"].t = "str" /\ r["code"].s # <<>>

C12_Filled == post_pc \in {"filled", "done"}

\* C12: complete_project_codes sets the code of every result record whose
\* code is absent, None or empty and whose name is a key of the mapping built
\* from the specification list to the code mapped to that name; a record with
\* a non-empty code is not overwritten, a record whose name is not in the
\* mapping is left as it is, and no other field of a record changes.
C12_Theorem ==
    C12_Filled =>
        /\ Len(filled_check_pro.l) = Len(result_data.l)
        /\ \A i \in 1..Len(result_data.l) :
              LET r == result_data.l[i].d
                  f == filled_check_pro.l[i].d
                  known == "item" \in DOMAIN r /\ C12_InMapping(r["item"])
              IN  /\ (C12_NoCode(r) /\ known) =>
                         /\ DOMAIN f = (DOMAIN r) \cup {"code"}
                         /\ f["code"] = C12_CodeFor(r["item"])
                  /\ C12_HasCode(r) => f = r
                  /\ ~known => f = r
                  /\ \A k \in (DOMAIN r) \ {"code"} : k \in DOMAIN f /\ f[k] = r[k]

\* C12 witness: the first record has no code and a name two specification
\* items give a code to, the second one carries its own code.
C12_Witness ==
    /\ C12_Filled
    /\ spec_data = <<Dict(ItemChr), Dict(ItemThk), Dict(ItemThk2)>>
    /\ Len(result_data.l) = 2
    /\ result_data.l[1] = Dict(WithCode(Record(Thickness, Str(<<"1">>), Str(<<"0">>)), None))
    /\ result_data.l[2] =
           Dict(WithCode(Record(Thickness, Str(<<"1">>), Str(<<"0">>)), Str(<<"P", "9">>)))
    /\ filled_check_pro.l[1].d["code"] = Str(<<"P", "7">>)
    /\ filled_check_pro.l[2].d["code"] = Str(<<"P", "9">>)

\* ---- C13, C14 ----
PostDone == post_pc = "done"

LimitKeys == {"upper", "lower"}

\* The value is a number or a string that denotes one.
IsNumeric(v) == v.t \in {"str", "num"} /\ ParseFloat(v.s).ok

\* d.ddE+dd with an optional sign.
IsExponential(v) ==
    /\ v.t = "str"
    /\ LET s == IF v.s # <<>> /\ v.s[1] = "-" THEN Tail(v.s) ELSE v.s IN
       /\ Len(s) = 8
       /\ s[1] \in Digits /\ s[2] = "." /\ s[3] \in Digits /\ s[4] \in Digits
       /\ s[5] = "E" /\ s[6] = "+" /\ s[7] \in Digits /\ s[8] \in Digits

\* C13: in the list convert_large_numbers_to_scientific returns, every limit
\* whose magnitude is above 100000, a numeric string or a number, is in
\* exponential form with two decimals and an uppercase E, and every limit
\* whose magnitude is at most 100000 is unchanged.
C13_Original ==
    PostDone =>
        \A i \in 1..Len(filled_check_pro.l) : \A k \in LimitKeys :
            LET v == filled_check_pro.l[i].d[k]
                o == converted_list.l[i].d[k]
            IN  IsNumeric(v) =>
                    IF ExceedsThreshold(ParseFloat(v.s))
                    THEN IsExponential(o)
                    ELSE o = v

\* The value is the infinity sign, the empty string, None, or a string that
\* does not denote a number.
IsSentinel(v) ==
    \/ v = None
    \/ v.t = "str" /\ (v.s = <<"inf">> \/ v.s = <<>> \/ ~ParseFloat(v.s).ok)

C14_Unchanged ==
    PostDone =>
        \A i \in 1..Len(filled_check_pro.l) : \A k \in LimitKeys :
            IsSentinel(filled_check_pro.l[i].d[k]) =>
                converted_list.l[i].d[k] = filled_check_pro.l[i].d[k]

\* Every record is a dict that holds both limits.
C14_Shaped ==
    \A i \in 1..Len(filled_check_pro.l) :
        filled_check_pro.l[i].t = "dict" /\ LimitKeys \subseteq DOMAIN filled_check_pro.l[i].d

\* C14: convert_large_numbers_to_scientific returns the infinity sign, the
\* empty string, None and every string that does not parse as a number
\* unchanged, and no limit value makes it raise.
C14_Theorem ==
    [](C14_Unchanged) /\ [][(post_pc = "filled" /\ C14_Shaped) => post_pc' = "done"]_vars

\* C14 witness: a string that is no number and a None limit came through.
C14_Witness ==
    /\ PostDone
    /\ Len(result_data.l) = 2
    /\ result_data.l[1] = Dict(Record(Thickness, Str(<<"a", "b", "c">>), Str(<<"0">>)))
    /\ result_data.l[2] = Dict(Record(Thickness, Str(<<"1">>), None))
    /\ converted_list.l[1].d["upper"] = Str(<<"a", "b", "c">>)
    /\ converted_list.l[2].d["lower"] = None

\* ---- C15, C16 ----
Success == http_response.status = 200

\* C15: in a success response, every record that answers a request item of
\* qualitative type carries the upper and lower limit stored in the request
\* for that item, whatever the model returned.
C15_Original ==
    Success =>
        \A i \in 1..Len(request.value.l) :
            request.value.l[i].d["type"] = Qualitative =>
                \A j \in 1..Len(http_response.body.dataList.l) :
                    LET q == request.value.l[i].d
                        r == http_response.body.dataList.l[j].d
                    IN  ("item" \in DOMAIN r /\ r["item"] = q["item"]) =>
                            r["upper"] = q["upper"] /\ r["lower"] = q["lower"]

\* Record r answers request item q: same name, type and unit.
Answers(r, q) ==
    /\ r.t = "dict"
    /\ {"item", "type", "unit"} \subseteq DOMAIN r.d
    /\ r.d["item"] = q.d["item"] /\ r.d["type"] = q.d["type"] /\ r.d["unit"] = q.d["unit"]

\* C16: the dataList of a success response holds exactly one record per
\* request item, with the item's name, type and unit: nothing added, dropped,
\* renamed or duplicated.
C16_Original ==
    Success =>
        LET req == request.value.l
            res == http_response.body.dataList.l
        IN  /\ Len(res) = Len(req)
            /\ \E p \in Permutations(1..Len(req)) :
                   \A i \in 1..Len(req) : Answers(res[p[i]], req[i])

\* ---- C17, C18 ----
\* C17: optimize_markdown_content applied to its own output returns that
\* output.
C17_Original == opt_pc = "twice" => compacted_again = compacted

HasCells(cells) == cells # <<>>

RECURSIVE C18_Join(_, _)
C18_Join(parts, sep) ==
    IF parts = <<>> THEN <<>>
    ELSE IF Len(parts) = 1 THEN parts[1]
    ELSE parts[1] \o sep \o C18_Join(Tail(parts), sep)

C18_Row(cells) == <<"|">> \o C18_Join(cells, <<"|">>) \o <<"|">>

C18_Separator(n) == C18_Row([k \in 1..n |-> <<"---">>])

\* The text the claim gives for a table: its rows without the rows that
\* have no cell; one row or nothing when fewer than two remain; otherwise
\* the first row, a separator with one column per cell of the first row,
\* and the other rows in order.
C18_Expected(trs) ==
    LET rows == SelectSeq(trs, HasCells) IN
    IF rows = <<>> THEN <<>>
    ELSE IF Len(rows) = 1 THEN C18_Row(rows[1])
    ELSE C18_Join(<<C18_Row(rows[1]), C18_Separator(Len(rows[1]))>>
                      \o [k \in 1..(Len(rows) - 1) |-> C18_Row(rows[k + 1])],
                  <<"\n">>)

\* C18: a text that consists of one HTML table is compacted to the rows of
\* the table that have cells, each written as its cell texts joined and
\* enclosed by '|', with exactly one separator row after the first row, of
\* as many '---' columns as the first row has cells, when two or more rows
\* remain, and without separator otherwise.
C18_Original ==
    (opt_pc # "start" /\ Len(opt_in) = 1 /\ opt_in[1] \in TableChars
        /\ opt_in[1] # "{tableW}") =>
        compacted = C18_Expected(TableLiteral(opt_in[1]))

\* ---- C19 ----
RECURSIVE DropTrailingZeros(_)
DropTrailingZeros(s) ==
    IF s # <<>> /\ s[Len(s)] = "0" THEN DropTrailingZeros(SubSeq(s, 1, Len(s) - 1)) ELSE s

\* Two numerals denote the same number: same sign and same digits once the
\* leading zeros of the integer part and the trailing zeros of the
\* fraction are dropped.
SameNumber(a, b) ==
    LET fa == ParseFloat(a.s)
        fb == ParseFloat(b.s)
    IN  /\ fa.neg = fb.neg
        /\ DropZeros(fa.int) = DropZeros(fb.int)
        /\ DropTrailingZeros(fa.frac) = DropTrailingZeros(fb.frac)

C19_Spelled(v) == IF v = Unbounded THEN Infinity ELSE v

\* What the claim says of the verdict on the pair (a, b).
C19_Verdict(a, b, verdict) ==
    LET x == C19_Spelled(a)
        y == C19_Spelled(b)
    IN  /\ (x = None /\ y = None) => verdict
        /\ ((x = None) # (y = None)) => ~verdict
        /\ (IsNumeric(x) /\ IsNumeric(y) /\ SameNumber(x, y)) => verdict
        /\ (x # None /\ y # None /\ (~IsNumeric(x) \/ ~IsNumeric(y))) =>
               (verdict <=> x.s = y.s)
        /\ (x # None /\ y # None /\ (IsNumeric(x) # IsNumeric(y))) => ~verdict

\* The sheet the loop scored last had every column.
ScoredFull ==
    /\ sc_pc = "loop" /\ sheet_no >= 1
    /\ sheets[sheet_no].columns = AllColumns

ScoredRows == SelectSeq(sheets[sheet_no].rows, IsQuantitative)

\* C19: values_equal judges two numerals of the same number equal, two
\* missing values equal, a missing and a present value different, takes the
\* spelled-out infinity for the infinity sign, and when one of the values is
\* no number judges them equal exactly if their string forms are identical,
\* so a number never equals a value that is no number.
C19_Theorem ==
    ScoredFull =>
        /\ Len(upper_comparison_series) = Len(ScoredRows)
        /\ Len(lower_comparison_series) = Len(ScoredRows)
        /\ \A k \in 1..Len(ScoredRows) :
              /\ C19_Verdict(ScoredRows[k].upper_new, ScoredRows[k].upper,
                             upper_comparison_series[k])
              /\ C19_Verdict(ScoredRows[k].lower_new, ScoredRows[k].lower,
                             lower_comparison_series[k])

\* C19 witness: "1" against "1.0" judged equal.
C19_Witness ==
    /\ ScoredFull
    /\ sheets[1].rows[1] = Row(Quantitative, One, Str(<<"1", ".", "0">>), One,
                               Str(<<"1", ".", "0">>))
    /\ upper_comparison_series = <<TRUE>>
    /\ lower_comparison_series = <<TRUE>>

\* ---- C20 ----
C20_Required == {"item", "upper_new", "lower_new", "upper", "lower"}

QuantCount(sheet) ==
    Cardinality({k \in 1..Len(sheet.rows) : sheet.rows[k].type = Quantitative})

RECURSIVE SumOf(_, _)
SumOf(entries, field) ==
    IF entries = <<>> THEN 0 ELSE Head(entries)[field] + SumOf(Tail(entries), field)

\* The per-sheet results of sheet i, printed[i].
C20_Sheet(i) ==
    LET sheet == sheets[i]
        r     == printed[i]
        n     == QuantCount(sheet)
    IN  IF ~(C20_Required \subseteq sheet.columns)
        THEN ~r.raised /\ r.total_cells = 0 /\ r.same_count = 0 /\ r.no_same_count = 0
             /\ r.rate.num = 0
        ELSE IF "type" \notin sheet.columns
        THEN r.raised
        ELSE /\ ~r.raised
             /\ r.total_cells = 2 * n
             /\ r.same_count >= 0 /\ r.no_same_count >= 0
             /\ r.same_count + r.no_same_count = r.total_cells
             /\ IF n = 0 THEN r.same_count = 0 /\ r.rate.num = 0
                ELSE r.rate.num * r.total_cells = 100 * r.same_count * r.rate.den

Scored == SelectSeq(printed, LAMBDA r : ~r.raised)

\* C20: each sheet's results count two cells per row of quantitative type,
\* same + different = total and rate = 100 * same / total, all zero without
\* such rows or without a required column (a sheet that has the required
\* columns but no type column raises and is left out); the overall totals are
\* the sums of the per-sheet totals and the overall rate is taken from them.
C20_Theorem ==
    sc_pc \in {"loop", "reported"} =>
        /\ Len(printed) = sheet_no
        /\ \A i \in 1..sheet_no : C20_Sheet(i)
        /\ overall_total_cells = SumOf(Scored, "total_cells")
        /\ overall_same_count = SumOf(Scored, "same_count")
        /\ overall_no_same_count = SumOf(Scored, "no_same_count")
        /\ sc_pc = "reported" =>
              /\ sheet_no = Len(sheets)
              /\ overall_total_cells > 0 =>
                     overall_consistency_rate.num * overall_total_cells
                         = 100 * overall_same_count * overall_consistency_rate.den

\* C20 witness: two sheets, three quantitative rows and a qualitative one.
C20_Witness ==
    /\ sc_pc = "reported"
    /\ sheets = <<SheetMixed, SheetOne>>
    /\ printed[1].total_cells = 4 /\ printed[1].same_count = 2
    /\ printed[2].total_cells = 2 /\ printed[2].same_count = 1
    /\ overall_total_cells = 6
    /\ overall_same_count = 3
    /\ overall_no_same_count = 3
    /\ overall_consistency_rate = Rate(300, 6)

\* ---- C21: requests are processed statelessly: two calls that receive the
\* same request, the same parser output and the same inference output send
\* the same status and body, whatever was served before and between them.
SameInputs(a, b) ==
    /\ a.request = b.request
    /\ a.parser = b.parser
    /\ a.md_content = b.md_content
    /\ a.inference = b.inference
    /\ a.response_content = b.response_content

C21_Theorem ==
    (pc = "responded" /\ SameInputs(CurrentExchange, remembered))
        => http_response = remembered.http_response

\* C21: the third request repeats the inputs of an earlier one that was
\* answered 200 with a back-filled code, after a different request.
C21_Witness ==
    /\ pc = "responded"
    /\ n_served = 2
    /\ SameInputs(CurrentExchange, remembered)
    /\ http_response.status = 200
    /\ request.value = List(<<Dict(ItemHaze)>>)
    /\ response_content = <<"[", "{coded}", ",", "{thk}", "]">>

\* ---- C22: end to end, for a quantitative item named hou du (thickness)
\* with unit mm and a document whose text contains "hou du <= 0.5 mm", the
\* record returned for that item has upper limit "0.5" and lower limit "0".
C22_Asked(q) ==
    /\ q.t = "dict"
    /\ q.d["item"] = Thickness /\ q.d["type"] = Quantitative
    /\ q.d["unit"] = Str(<<"m", "m">>)

C22_Original ==
    (/\ Success
     /\ \E i \in 1..Len(request.value.l) : C22_Asked(request.value.l[i])
     /\ Contains(md_content, Phrase))
        => LET records == http_response.body.dataList.l
               Named(j) == /\ records[j].t = "dict"
                           /\ "item" \in DOMAIN records[j].d
                           /\ records[j].d["item"] = Thickness
           IN  /\ \E j \in 1..Len(records) : Named(j)
               /\ \A j \in 1..Len(records) :
                      Named(j) => /\ records[j].d["upper"] = Str(<<"0", ".", "5">>)
                                  /\ records[j].d["lower"] = Str(<<"0">>)

\* ---- C23: once the inference call is issued the handler sends no response
\* before the call has returned, and nothing but the end of the stream ends
\* the wait: if the parser returns and the stream ends, the request gets
\* exactly one response, with status 200, 400 or 500; while the stream goes
\* on, the request stays unanswered.
C23_Waits ==
    (Member(trace, "prompt") /\ ~Member(trace, "stream")) => http_response = NoResponse

C23_Step ==
    /\ (pc = "streaming" /\ pc' # "streaming")
           => (pc' = "streamed" /\ trace' = Append(trace, "stream"))
    /\ http_response # NoResponse => http_response' = http_response

C23_Theorem ==
    /\ [](C23_Waits)
    /\ [](Responded => http_response.status \in {200, 400, 500})
    /\ [][C23_Step]_vars
    /\ (pc = "received") ~> (Responded \/ pc = "validated")
    /\ (pc = "parsed") ~> (pc = "streaming")
    /\ (pc = "streamed") ~> Responded
    /\ (pc = "raised") ~> Responded
    /\ (<>[](pc = "streaming")) => [](http_response = NoResponse)

\* C23: a request answered after its stream ended in an error (empty text).
C23_Witness ==
    /\ Responded
    /\ Member(trace, "stream")
    /\ response_content = <<>>
    /\ http_response.status = 500

\* ---- C24: every request writes its images into the one fixed directory
\* /tmp/mineru_temp, with no lock and no subdirectory of its own: while two
\* requests are parsing, a file one of them writes lands in the directory
\* the other is using, and may replace a file the other wrote.
Using(t) == par_pc[t] = "dir_made"

WrittenBy(t) == {images_list[t][i] : i \in 1..n_written[t]}

C24_Shared ==
    /\ \A f \in files : f.dir = "/tmp/mineru_temp"
    /\ \A t \in Handlers : temp_dir[t] \in {"", "/tmp/mineru_temp"}
    /\ \A t \in Handlers :
           (Using(t) /\ n_written[t] < Len(images_list[t])) => ENABLED WriteImage(t)

C24_Write ==
    \A t, u \in Handlers :
        (t # u /\ Using(u) /\ n_written'[t] = n_written[t] + 1)
            => File(temp_dir[u], images_list[t][n_written[t] + 1], t) \in files'

C24_Theorem == [](C24_Shared) /\ [][C24_Write]_vars

\* C24: both requests are between mkdir and return, and a file request 1
\* wrote has been replaced by request 2.
C24_Witness ==
    /\ Using(1) /\ Using(2)
    /\ \E f \in files :
           /\ f.dir = temp_dir[1]
           /\ f.name \in WrittenBy(1)
           /\ f.by = 2

\* ---- C25: validation precedes every external call: a request answered
\* 400 has started neither PDF parsing nor an inference request; the
\* inference request is issued only after PDF parsing has returned, and none
\* is made if PDF parsing raises; back-fill and normalization run only after
\* the model response has been extracted.
InferenceIssued == payload.stream = TRUE

ParsingRaised == exc.msg = "PDF parsing failed"

C25_Order ==
    /\ http_response.status = 400 => (trace = <<>> /\ ~InferenceIssued)
    /\ InferenceIssued =>
           (/\ Len(trace) >= 1 /\ trace[1] = "parse_pdf"
            /\ md_content \in MdDocs
            /\ ~ParsingRaised)
    /\ ParsingRaised => (~InferenceIssued /\ ~Member(trace, "stream"))
    /\ \A i \in 1..Len(trace) :
           trace[i] \in {"backfill", "normalize"}
               => \E j \in 1..(i - 1) : trace[j] = "extract"

C25_Step ==
    /\ payload' # payload => (pc = "parsed" /\ pc' = "streaming")
    /\ (trace' # trace /\ Member(trace', "backfill")) => pc = "extracted"
    /\ (pc = "received" /\ pc' = "responded") => http_response'.status = 400

C25_Theorem == [](C25_Order) /\ [][C25_Step]_vars

\* C25: PDF parsing raised and the request was answered 500 with no
\* inference request made.
C25_Witness ==
    /\ Responded
    /\ ParsingRaised
    /\ trace = <<"parse_pdf">>
    /\ http_response.status = 500

\* ---- C26: the text optimize_markdown_content returns is whitespace-
\* normalized for every input: no two consecutive spaces, no space or tab
\* right before a newline, no three consecutive newlines, no leading or
\* trailing whitespace; the text that comes from a converted table too.
Normalized(s) ==
    /\ \A i \in 1..(Len(s) - 1) : ~(s[i] = " " /\ s[i + 1] = " ")
    /\ \A i \in 1..(Len(s) - 1) : ~(s[i] \in {" ", "\t"} /\ s[i + 1] = "\n")
    /\ \A i \in 1..(Len(s) - 2) : ~(s[i] = "\n" /\ s[i + 1] = "\n" /\ s[i + 2] = "\n")
    /\ s # <<>> => (s[1] \notin Whitespace /\ s[Len(s)] \notin Whitespace)

C26_Theorem ==
    /\ opt_pc \in {"once", "twice"} => Normalized(compacted)
    /\ opt_pc = "twice" => Normalized(compacted_again)

\* C26: a table whose cell texts hold two spaces, and a tab before three
\* newlines, next to a blank line of the document.
C26_Witness ==
    /\ opt_pc = "once"
    /\ opt_in = <<"\n", "\n", "{tableW}">>
    /\ compacted = <<"|", "a", " ", "b", "|", "\n", "|", "---", "|", "\n",
                     "|", "c", "\n", "\n", "d", "|">>

\* ---- C27 ----
\* The request items that give name a code, once the request is validated.
C27_Givers(name) ==
    {j \in 1..Len(request.value.l) :
        /\ request.value.l[j].d["item"] = name
        /\ request.value.l[j].d["code"].t = "str"
        /\ request.value.l[j].d["code"].s # <<>>}

C27_Stripped ==
    payload.model # "" =>
        /\ Len(payload.content.check_pro) = Len(request.value.l)
        /\ \A i \in 1..Len(request.value.l) :
              LET sent == payload.content.check_pro[i].d
                  item == request.value.l[i].d
              IN  /\ DOMAIN sent = (DOMAIN item) \ {"code"}
                  /\ \A k \in DOMAIN sent : sent[k] = item[k]

C27_Restored ==
    (pc = "responded" /\ http_response.status = 200) =>
        \A i \in 1..Len(data_list.l) :
            LET r == data_list.l[i].d
                g == IF "item" \in DOMAIN r THEN C27_Givers(r["item"]) ELSE {}
            IN  ("code" \notin DOMAIN r /\ g # {}) =>
                    /\ "code" \in DOMAIN http_response.body.dataList.l[i].d
                    /\ http_response.body.dataList.l[i].d["code"] =
                           request.value.l[CHOOSE j \in g : \A k \in g : k <= j].d["code"]

\* C27: the specification list of the prompt is the request's list without
\* the code key of any item, and every record the model returned without a
\* code whose name a request item gives a code to is answered with the code
\* of the last such item.
C27_Theorem == C27_Stripped /\ C27_Restored

\* C27 witness: two items of one name with the codes P1 and P7; the model
\* returns a record of that name with a code and one without, and the one
\* without is answered with P7.
C27_Witness ==
    /\ pc = "responded"
    /\ http_response.status = 200
    /\ request.value = List(<<Dict(ItemThk), Dict(ItemThk2)>>)
    /\ \A i \in 1..2 : "code" \notin DOMAIN payload.content.check_pro[i].d
    /\ Len(data_list.l) = 2
    /\ "code" \notin DOMAIN data_list.l[2].d
    /\ http_response.body.dataList.l[1].d["code"] = Str(<<"P", "9">>)
    /\ http_response.body.dataList.l[2].d["code"] = Str(<<"P", "7">>)

\* ---- C28 ----
C28_SameButLimits ==
    post_pc = "done" =>
        /\ Len(converted_list.l) = Len(filled_check_pro.l)
        /\ \A i \in 1..Len(filled_check_pro.l) :
              /\ DOMAIN converted_list.l[i].d = DOMAIN filled_check_pro.l[i].d
              /\ \A k \in (DOMAIN filled_check_pro.l[i].d) \ {"upper", "lower"} :
                     converted_list.l[i].d[k] = filled_check_pro.l[i].d[k]

\* C28: the list convert_large_numbers_to_scientific returns has the length
\* and the record order of its argument, each record with the keys of the
\* argument's record and its values except for the two limits, and the call
\* leaves its argument as it was.
C28_Theorem ==
    [](C28_SameButLimits)
        /\ [][post_pc = "filled" => filled_check_pro' = filled_check_pro]_vars

\* C28 witness: a record with a code and the limit 1000000 was converted; the
\* argument still holds 1000000.
C28_Witness ==
    /\ post_pc = "done"
    /\ Len(filled_check_pro.l) = 2
    /\ "code" \in DOMAIN filled_check_pro.l[2].d
    /\ filled_check_pro.l[2].d["code"] = Str(<<"P", "1">>)
    /\ filled_check_pro.l[2].d["upper"] = Str(<<"1", "0", "0", "0", "0", "0", "0">>)
    /\ converted_list.l[2].d["code"] = Str(<<"P", "1">>)
    /\ converted_list.l[2].d["upper"] = Str(<<"1", ".", "0", "0", "E", "+", "0", "6">>)

\* ---- C29 ----
\* Some item name of the request is a string in which the two characters of
\* Haze follow each other.
C29_NamesHaze ==
    \E i \in 1..Len(request.value.l) :
        LET name == request.value.l[i].d["item"] IN
        /\ name.t = "str"
        /\ \E p \in 1..(Len(name.s) - 1) : name.s[p] = "wu" /\ name.s[p + 1] = "du"

\* C29: every prompt carries one of the two side instructions, the CF one
\* when some item name of the request contains the characters of Haze and
\* the TFT one when none does.
C29_Theorem ==
    payload.model # "" =>
        /\ payload.content.languge_ \in {"CF", "TFT"}
        /\ payload.content.languge_ = "CF" <=> C29_NamesHaze

\* C29 witness: the name of the second item holds the characters of Haze
\* among others, and the prompt carries the CF instruction.
C29_Witness ==
    /\ payload.model # ""
    /\ request.value = List(<<Dict(ItemThk), Dict(ItemInnerHaze)>>)
    /\ payload.content.languge_ = "CF"

\* ---- C30 ----
\* The text of a cell as the record carries it.
C30_Text(cell) == Str(Strip(cell.s))

\* The rows, in order, that have a value in the code cell and in the name
\* cell, each with the header of its sheet.
C30_Having(rows_of) ==
    SelectSeq(rows_of,
              LAMBDA e : /\ {"code", "item"} \subseteq e.columns
                         /\ e.row["code"] # None /\ e.row["item"] # None)

C30_Tagged(sheet) == [i \in 1..Len(sheet.rows) |-> [columns |-> sheet.columns,
                                                     row |-> sheet.rows[i]]]

RECURSIVE C30_AllRows(_)
C30_AllRows(k) ==
    IF k > Len(excel_file) THEN <<>> ELSE C30_Tagged(excel_file[k]) \o C30_AllRows(k + 1)

\* The file holds one record per row of rows_of that has a code and a name,
\* in order, with the six keys, the defaults and the limits of the claim.
C30_Emitted(rows_of) ==
    LET having == C30_Having(rows_of) IN
    /\ Len(output_json.l) = Len(having)
    /\ \A i \in 1..Len(having) :
          LET r == output_json.l[i]
              e == having[i]
              Missing(c) == c \notin e.columns \/ e.row[c] = None
          IN  /\ DOMAIN r = {"code", "item", "type", "unit", "upper", "lower"}
              /\ r["code"] = C30_Text(e.row["code"])
              /\ r["item"] = C30_Text(e.row["item"])
              /\ r["type"] = IF Missing("type") THEN Quantitative
                             ELSE C30_Text(e.row["type"])
              /\ r["unit"] = IF Missing("unit") THEN Str(<<>>) ELSE C30_Text(e.row["unit"])
              /\ r["upper"] = r["lower"]
              /\ r["upper"] = Str(<<"0">>) <=> r["type"] = Qualitative
              /\ r["upper"] # Str(<<"0">>) => r["upper"] = Str(<<>>)

\* C30 as stated: the file excel_to_json writes holds one record for every
\* row of the workbook that has a project code and an item name, in row
\* order, with the six keys; a missing type is ding liang, a missing unit
\* empty, and both limits are "0" exactly when the type is ding xing.
C30_Original == conv_pc = "saved" => C30_Emitted(C30_AllRows(1))

\* C30, amended: the file excel_to_json writes holds one record for every
\* row of the first sheet of the workbook that has a project code and an item
\* name, in row order, with the six keys; a missing type is ding liang, a
\* missing unit empty, and both limits are "0" exactly when the type is
\* ding xing.
C30_Theorem == conv_pc = "saved" => C30_Emitted(C30_Tagged(excel_file[1]))

\* C30 witness: the first sheet holds a row without a name and a row whose
\* type cell is empty, the second sheet a row with code and name; the file
\* holds the one record of the first sheet.
C30_Witness ==
    /\ conv_pc = "saved"
    /\ Len(excel_file) = 2
    /\ Len(excel_file[2].rows) = 1
    /\ excel_file[2].rows[1]["code"] # None
    /\ excel_file[1].columns = ConvColumns
    /\ excel_file[1].rows =
           <<ConvRow(Str(<<"P", "3">>), None, Qualitative, Str(<<"m", "m">>)),
             ConvRow(Str(<<" ", "P", "4", " ">>), Chroma, None, Str(<<" ", "m", "m">>))>>
    /\ output_json =
           List(<<Item(Str(<<"P", "4">>), Chroma, Quantitative, Str(<<>>), Str(<<>>),
                       Str(<<"m", "m">>))>>)

====
